---- MODULE Spec2Model ----
(***************************************************************************)
(* npm resolution (cli/npm/resolution.rs), registry metadata              *)
(* (cli/npm/registry.rs) and the package cache (cli/npm/cache.rs,         *)
(* cli/npm/tarball.rs) as state machines.                                  *)
(***************************************************************************)
EXTENDS Integers, Sequences, FiniteSets, TLC

(***************************************************************************)
(* Bounds of the model.                                                    *)
(***************************************************************************)
\* Cap on the PackageContext allocations (Arc::new) in one NpmResolution.
MaxNodes == 10

(***************************************************************************)
(* Versions and version requirements (semver crate).                       *)
(***************************************************************************)
NoVersion == <<>>

Ver(M, m, p) == <<M, m, p>>

\* semver::Version::cmp(..).is_lt(): major, then minor, then patch.
VersionLt(v, w) ==
  \/ v[1] < w[1]
  \/ v[1] = w[1] /\ v[2] < w[2]
  \/ v[1] = w[1] /\ v[2] = w[2] /\ v[3] < w[3]

\* The requirement ^M.m.p (M >= 1): >= M.m.p and < (M+1).0.0.
Caret(M, m, p) == [major |-> M, minor |-> m, patch |-> p]

\* semver::VersionReq::matches for a caret requirement.
Matches(req, v) ==
  /\ v[1] = req.major
  /\ ~VersionLt(v, <<req.major, req.minor, req.patch>>)

\* NpmPackageReference { name, version_req }
Ref(name, req) == [name |-> name, version_req |-> req]

(***************************************************************************)
(* The frozen registry.                                                    *)
(***************************************************************************)
\* Package names that are requested; "z" is not in the registry (404).
Names == {"a", "b", "c", "d", "z"}

\* String order of the names (String::cmp).
NameRank(n) ==
  CASE n = "a" -> 1 [] n = "b" -> 2 [] n = "c" -> 3 [] n = "d" -> 4 [] OTHER -> 5

\* A raw dependency value: a plain range, or "npm:<name>@<range>".
Plain(range) == [npm |-> FALSE, name |-> "", range |-> range]

Alias(name, range) == [npm |-> TRUE, name |-> name, range |-> range]

NoDependencies == [k \in {} |-> Plain(Caret(1, 0, 0))]

\* NpmPackageVersionInfo { version, dist, dependencies }
VersionInfo(v, deps) == [version |-> v, dependencies |-> deps]

\* NpmPackageInfo.versions of each package of the registry.
Registry ==
  [a |-> {VersionInfo(Ver(1, 0, 0), [c |-> Plain(Caret(4, 0, 0))])},
   b |-> {VersionInfo(Ver(1, 0, 0), [c |-> Plain(Caret(5, 0, 0))])},
   c |-> {VersionInfo(Ver(5, 0, 0), NoDependencies),
          VersionInfo(Ver(5, 1, 0), NoDependencies),
          VersionInfo(Ver(4, 9, 0), NoDependencies)},
   d |-> {VersionInfo(Ver(1, 0, 0),
            [c |-> Plain(Caret(4, 0, 0)), c2 |-> Alias("c", Caret(5, 0, 0))])}]

RegistryNames == DOMAIN Registry

\* The version info a PackageContext holds (PackageContext.info).
InfoOf(name, version) ==
  CHOOSE vi \in Registry[name] : vi.version = version

(***************************************************************************)
(* Iteration orders of a HashMap: every sequence without repetition over   *)
(* the entries.                                                             *)
(***************************************************************************)
SeqsOf(S) ==
  {s \in [1..Cardinality(S) -> S] : \A i, j \in 1..Cardinality(S) : i # j => s[i] # s[j]}

NameOrders == SeqsOf(Names)

(***************************************************************************)
(* registry.rs: dependencies_as_references                                 *)
(***************************************************************************)
\* entry_as_bare_specifier_and_reference: the entry (bare, raw) as a
\* dependency entry; an alias names the package, a plain range names the key.
EntryAsReference(bare, raw) ==
  [bare_specifier |-> bare,
   name |-> IF raw.npm THEN raw.name ELSE bare,
   version_req |-> raw.range]

\* The Vec collected from the dependencies map, in the order `order` of keys.
DependenciesAsReferences(info, order) ==
  [i \in 1..Len(order) |-> EntryAsReference(order[i], info.dependencies[order[i]])]

\* Vec::sort_by(|a, b| a.name.cmp(&b.name)): a stable sort by name.
RECURSIVE InsertByName(_, _)
InsertByName(sorted, e) ==
  IF sorted = <<>> THEN <<e>>
  ELSE IF NameRank(sorted[Len(sorted)].name) <= NameRank(e.name)
       THEN Append(sorted, e)
       ELSE Append(InsertByName(SubSeq(sorted, 1, Len(sorted) - 1), e),
                   sorted[Len(sorted)])

RECURSIVE SortByName(_)
SortByName(s) ==
  IF s = <<>> THEN <<>>
  ELSE InsertByName(SortByName(SubSeq(s, 1, Len(s) - 1)), s[Len(s)])

(***************************************************************************)
(* resolution.rs: get_resolved_package_version_and_info                    *)
(***************************************************************************)
\* The loop body without the is_best_version test: the last match wins.
BestVersionStepLastMatch(req, best, version) ==
  IF Matches(req, version) THEN version ELSE best

\* One iteration of the loop over info.versions.
BestVersionStep(req, best, version) ==
  IF Matches(req, version)
  THEN IF best = NoVersion \/ VersionLt(best, version) THEN version ELSE best
  ELSE best

RECURSIVE BestVersionFold(_, _, _)
BestVersionFold(req, best, order) ==
  IF order = <<>> THEN best
  ELSE BestVersionFold(req, BestVersionStep(req, best, Head(order)), Tail(order))

\* The version chosen when the versions map iterates in `order`
\* (NoVersion: the "could not package ... matching" error).
GetResolvedPackageVersion(req, order) == BestVersionFold(req, NoVersion, order)

(***************************************************************************)
(* State.                                                                  *)
(***************************************************************************)
\* The callers of add_packages on the one NpmResolution.
Calls == {1, 2}

\* The requirement vectors a caller may pass.
ReqVectors ==
  {<<Ref("b", Caret(1, 0, 0)), Ref("a", Caret(1, 0, 0))>>,
   <<Ref("c", Caret(4, 0, 0))>>,
   <<Ref("a", Caret(1, 0, 0)), Ref("z", Caret(1, 0, 0))>>,
   <<Ref("d", Caret(1, 0, 0))>>,
   <<Ref("c", Caret(6, 0, 0))>>,
   <<Ref("b", Caret(1, 0, 0))>>}

VARIABLES
  nodes,         \* the PackageContexts allocated so far (Arc<PackageContext>), by id
  rootChildren,  \* RootContext.children: name -> node id (0: no entry)
  stored,        \* NpmResolution.stored (the published StoredNpmResolution)
  holder,        \* owner of NpmResolution.context (tokio Mutex), 0 when free
  cache,         \* NpmRegistryApi.cache: the names with a memoized answer
  pc,            \* each caller's position in add_packages
  queue,         \* the sorted packages the caller's loop has still to add
  stack,         \* the add_package calls in progress: <<[ctx, deps]>>
  pending,       \* the package whose package_info is awaited, and its insert context
  result,        \* how each call ended
  vec,           \* the vector each call was made with
  pre,           \* the snapshot published when the caller acquired the permit
  observed,      \* the snapshot the last read (resolve_package, all_packages) saw
  observedIn,    \* the call that held the permit during that read, 0 when none
  run,           \* 1, or 2 after the resolution was constructed anew
  firstSnap      \* the snapshot the first construction published

rvars == <<nodes, rootChildren, stored, holder, cache, pc, queue, stack,
           pending, result, vec, pre, observed, observedIn, run, firstSnap>>

\* The state of the package cache (cache.rs).
VARIABLES
  folder,     \* package_folder(id) on disk: "absent", "partial" or "complete"
  tpc,        \* each task's position in ensure_package
  tid,        \* the id the task's call is for
  tresult,    \* how the task's last call ended
  returned,   \* the state of the folder when the last call returned Ok
  original,   \* the error of verify_and_extract_tarball the cleanup follows
  extracting  \* the task inside the synchronous extract_tarball, 0 when none

cvars == <<folder, tpc, tid, tresult, returned, original, extracting>>

\* The argument and the result of the function a specification applies
\* (tarball.rs, compat/mod.rs).
VARIABLES
  input,      \* the arguments the function is called with
  output      \* what it returned, NoOutput before the call

fvars == <<input, output>>

\* The state of one NpmRegistryApi and its clones (registry.rs).
VARIABLES
  apiCache,   \* NpmRegistryApi.cache: the entry memoized for each name
  apc,        \* each task's position in maybe_package_info
  aop,        \* the method the task called
  aname,      \* the name the task's call is for
  aresult     \* what the task's last call returned

avars == <<apiCache, apc, aop, aname, aresult>>

\* The state of one NodeCodeTranslator (ext/node/analyze.rs).
VARIABLES
  handled_reexports,  \* the specifiers an analysis was started for, and the entry
  analyze_futures,    \* the analyses started and not yet completed
  all_exports,        \* the export names collected so far
  errors,             \* the errors collected so far, in the order pushed
  resolved,           \* the <<reexport, referrer>> given to node_resolver.resolve
  analysed,           \* the specifiers given to analyze_cjs, in the order completed
  translated,         \* what translate_cjs_to_esm returned, NotTranslated before
  firstResult         \* what the call before this one returned

tvars == <<handled_reexports, analyze_futures, all_exports, errors, resolved,
           analysed, translated, firstResult>>

vars == <<rvars, cvars, fvars, avars, tvars>>

NoInput == [op |-> "none"]

NoOutput == [kind |-> "none"]

\* No function is being applied.
InitFunctions == input = NoInput /\ output = NoOutput

NotTranslated == [kind |-> "none"]

\* No translation was asked for.
InitTranslator ==
  /\ handled_reexports = {}
  /\ analyze_futures = {}
  /\ all_exports = {}
  /\ errors = <<>>
  /\ resolved = {}
  /\ analysed = <<>>
  /\ translated = NotTranslated
  /\ firstResult = NotTranslated

Root == 0

NoCtx == -1

NoChildren == [n \in Names |-> 0]

NoNonChildren == [n \in Names |-> NoVersion]

EmptyMap == [k \in {} |-> 0]

\* StoredNpmResolution of an NpmResolution that resolved nothing.
EmptyStored == [top_level_packages |-> EmptyMap, packages |-> EmptyMap]

NoPending == [package |-> Ref("", Caret(0, 0, 0)), ctx |-> NoCtx]

\* How a call ended; an error names the package and the range it is about.
Outcome(kind) == [kind |-> kind, name |-> "", version_req |-> Caret(0, 0, 0)]

ErrorFor(kind, package) ==
  [kind |-> kind, name |-> package.name, version_req |-> package.version_req]

InitResolution ==
  /\ nodes = <<>>
  /\ rootChildren = NoChildren
  /\ stored = EmptyStored
  /\ holder = 0
  /\ cache = {}
  /\ pc = [c \in Calls |-> "idle"]
  /\ queue = [c \in Calls |-> <<>>]
  /\ stack = [c \in Calls |-> <<>>]
  /\ pending = [c \in Calls |-> NoPending]
  /\ result = [c \in Calls |-> Outcome("none")]
  /\ vec = [c \in Calls |-> <<>>]
  /\ pre = [c \in Calls |-> EmptyStored]
  /\ observed = EmptyStored
  /\ observedIn = 0
  /\ run = 1
  /\ firstSnap = EmptyStored

(***************************************************************************)
(* resolution.rs: the context tree                                         *)
(***************************************************************************)
\* ResolutionContext::children (of the root, or of a package's deps).
ChildrenOf(ctx) == IF ctx = Root THEN rootChildren ELSE nodes[ctx].children

\* ResolutionContext::get_dependency_version
GetDependencyVersion(ctx, name) ==
  IF ctx = Root
  THEN IF rootChildren[name] # 0 THEN nodes[rootChildren[name]].version ELSE NoVersion
  ELSE IF nodes[ctx].children[name] # 0
       THEN nodes[nodes[ctx].children[name]].version
       ELSE nodes[ctx].non_children[name]

Action(kind, ctx, version) == [kind |-> kind, ctx |-> ctx, version |-> version]

\* resolve: the walk from `current` up the parents; lastParent is NoCtx while
\* `current` is the context the package is added to.
RECURSIVE ResolveWalk(_, _, _)
ResolveWalk(current, lastParent, package) ==
  LET dep_version == GetDependencyVersion(current, package.name) IN
  IF dep_version # NoVersion
  THEN IF Matches(package.version_req, dep_version)
       THEN IF lastParent = NoCtx
            THEN Action("None", NoCtx, NoVersion)
            ELSE IF current = Root
                 \* current.into_package_context().unwrap() of the root
                 THEN Action("Panic", NoCtx, NoVersion)
                 ELSE Action("InsertNonChild", current, dep_version)
       ELSE IF lastParent = NoCtx
            THEN Action("Err", NoCtx, NoVersion)
            ELSE Action("InsertChild", current, NoVersion)
  ELSE IF current = Root
       THEN Action("InsertChild", Root, NoVersion)
       ELSE ResolveWalk(nodes[current].parent, current, package)

Resolve(context, package) == ResolveWalk(context, NoCtx, package)

\* ResolutionContext::insert_child on the root: HashMap::insert under the name.
InsertRootChild(name, id) == [rootChildren EXCEPT ![name] = id]

\* ResolutionContext::insert_child on a package: the new node and the entry.
InsertPackageChild(ns, ctx, name, id) ==
  [ns EXCEPT ![ctx].children[name] = id]

(***************************************************************************)
(* resolution.rs: as_stored / populate_packages                            *)
(***************************************************************************)
IdOf(name, id) == <<name, nodes[id].version>>

\* The dependencies map of a package: its context's children, by name.
DependenciesOf(id) ==
  [n \in {m \in Names : nodes[id].children[m] # 0} |-> IdOf(n, nodes[id].children[n])]

\* populate_packages leaving its loop after the first package it inserts.
RECURSIVE PopulateFirstOnly(_, _, _, _)
PopulateFirstOnly(children, todo, ord, packages) ==
  IF todo = <<>> THEN packages
  ELSE IF children[Head(todo)] = 0
       THEN PopulateFirstOnly(children, Tail(todo), ord, packages)
       ELSE (IdOf(Head(todo), children[Head(todo)]) :>
               [id |-> IdOf(Head(todo), children[Head(todo)]),
                dependencies |-> DependenciesOf(children[Head(todo)])])
              @@ packages

\* populate_packages over `children`, whose entries are visited in the order
\* `todo`; every map iterates its names in the order `ord`.
RECURSIVE PopulatePackages(_, _, _, _)
PopulatePackages(children, todo, ord, packages) ==
  IF todo = <<>> THEN packages
  ELSE LET name == Head(todo)
           child == children[name]
       IN IF child = 0 \/ IdOf(name, child) \in DOMAIN packages
          THEN PopulatePackages(children, Tail(todo), ord, packages)
          ELSE LET id == IdOf(name, child)
                   inserted ==
                     (id :> [id |-> id, dependencies |-> DependenciesOf(child)])
                       @@ packages
                   below ==
                     PopulatePackages(nodes[child].children, ord, ord, inserted)
               IN PopulatePackages(children, Tail(todo), ord, below)

\* as_stored of the root context.
AsStored(ord) ==
  [top_level_packages |->
     [n \in {m \in Names : rootChildren[m] # 0} |-> IdOf(n, rootChildren[n])],
   packages |-> PopulatePackages(rootChildren, ord, ord, EmptyMap)]

(***************************************************************************)
(* resolution.rs: StoredNpmResolution reads                                *)
(***************************************************************************)
NoId == <<>>

\* StoredNpmResolution::resolve_package: the package's id, an error, or the
\* panic of packages.get(..).unwrap() on an id that is no key of packages.
ResolvePackage(s, name, referrer) ==
  IF referrer # NoId
  THEN IF referrer \in DOMAIN s.packages
       THEN IF name \in DOMAIN s.packages[referrer].dependencies
            THEN IF s.packages[referrer].dependencies[name] \in DOMAIN s.packages
                 THEN [kind |-> "Ok", id |-> s.packages[referrer].dependencies[name]]
                 ELSE [kind |-> "UnwrapNone", id |-> NoId]
            ELSE [kind |-> "ErrNotReferenced", id |-> NoId]
       ELSE [kind |-> "ErrNoReferrer", id |-> NoId]
  ELSE IF name \in DOMAIN s.top_level_packages
       THEN IF s.top_level_packages[name] \in DOMAIN s.packages
            THEN [kind |-> "Ok", id |-> s.top_level_packages[name]]
            ELSE [kind |-> "UnwrapNone", id |-> NoId]
       ELSE [kind |-> "ErrNotFound", id |-> NoId]

\* StoredNpmResolution::all_packages
AllPackages(s) == {s.packages[id] : id \in DOMAIN s.packages}

(***************************************************************************)
(* resolution.rs: NpmResolution::add_packages                              *)
(***************************************************************************)
\* The call holds the permit: from context.lock().await to its return.
InCritical(c) == pc[c] \in {"run", "fetch"}

\* The frames of add_package calls whose dependency loop has entries left.
RECURSIVE Unwind(_)
Unwind(st) ==
  IF st # <<>> /\ st[Len(st)].deps = <<>>
  THEN Unwind(SubSeq(st, 1, Len(st) - 1))
  ELSE st

\* The call ends: the guard on the context is dropped, the future is gone.
Finish(c, how) ==
  /\ pc' = [pc EXCEPT ![c] = "done"]
  /\ result' = [result EXCEPT ![c] = how]
  /\ holder' = IF holder = c THEN 0 ELSE holder
  /\ queue' = [queue EXCEPT ![c] = <<>>]
  /\ stack' = [stack EXCEPT ![c] = <<>>]
  /\ pending' = [pending EXCEPT ![c] = NoPending]

\* add_packages is called: the vector is sorted by name, then the permit awaited.
Call(c, v) ==
  /\ pc[c] = "idle"
  /\ run = 2 => (c = 1 /\ v = vec[1])
  /\ pc' = [pc EXCEPT ![c] = "lock"]
  /\ vec' = [vec EXCEPT ![c] = v]
  /\ queue' = [queue EXCEPT ![c] = SortByName(v)]
  /\ UNCHANGED <<nodes, rootChildren, stored, holder, cache, stack, pending,
                 result, pre, observed, observedIn, run, firstSnap, cvars, fvars, avars, tvars>>

\* The permit handed out while another call holds it.
AcquireWhileHeld(c) ==
  /\ pc[c] = "lock"
  /\ holder' = c
  /\ pc' = [pc EXCEPT ![c] = "run"]
  /\ pre' = [pre EXCEPT ![c] = stored]
  /\ UNCHANGED <<nodes, rootChildren, stored, cache, queue, stack, pending,
                 result, vec, observed, observedIn, run, firstSnap, cvars, fvars, avars, tvars>>

\* self.context.lock().await completes.
Acquire(c) ==
  /\ pc[c] = "lock"
  /\ holder = 0
  /\ holder' = c
  /\ pc' = [pc EXCEPT ![c] = "run"]
  /\ pre' = [pre EXCEPT ![c] = stored]
  /\ UNCHANGED <<nodes, rootChildren, stored, cache, queue, stack, pending,
                 result, vec, observed, observedIn, run, firstSnap, cvars, fvars, avars, tvars>>

\* add_package up to its await: the next package of the innermost dependency
\* loop, or of the top-level loop, is resolved against its context.
AddPackage(c) ==
  /\ pc[c] = "run"
  /\ LET st == Unwind(stack[c])
         nested == st # <<>>
         context == IF nested THEN st[Len(st)].ctx ELSE Root
         package == IF nested THEN Head(st[Len(st)].deps) ELSE Head(queue[c])
         stRest == IF nested
                   THEN [st EXCEPT ![Len(st)].deps = Tail(st[Len(st)].deps)]
                   ELSE st
         quRest == IF nested THEN queue[c] ELSE Tail(queue[c])
         action == Resolve(context, package)
     IN /\ nested \/ queue[c] # <<>>
        /\ CASE action.kind = "None" ->
                  /\ stack' = [stack EXCEPT ![c] = stRest]
                  /\ queue' = [queue EXCEPT ![c] = quRest]
                  /\ UNCHANGED <<nodes, pc, pending, result, holder>>
             [] action.kind = "InsertNonChild" ->
                  /\ nodes' = [nodes EXCEPT
                       ![action.ctx].non_children[package.name] = action.version]
                  /\ stack' = [stack EXCEPT ![c] = stRest]
                  /\ queue' = [queue EXCEPT ![c] = quRest]
                  /\ UNCHANGED <<pc, pending, result, holder>>
             [] action.kind = "InsertChild" ->
                  /\ pc' = [pc EXCEPT ![c] = "fetch"]
                  /\ pending' = [pending EXCEPT
                       ![c] = [package |-> package, ctx |-> action.ctx]]
                  /\ stack' = [stack EXCEPT ![c] = stRest]
                  /\ queue' = [queue EXCEPT ![c] = quRest]
                  /\ UNCHANGED <<nodes, result, holder>>
             [] action.kind = "Err" ->
                  /\ Finish(c, ErrorFor("err_incompatible", package))
                  /\ UNCHANGED nodes
             [] OTHER ->
                  /\ Finish(c, Outcome("panic"))
                  /\ UNCHANGED nodes
  /\ UNCHANGED <<rootChildren, stored, cache, vec, pre, observed, observedIn, run, firstSnap, cvars, fvars, avars, tvars>>

\* api.package_info(name).await fails: a 404 (memoized as None: "package does
\* not exist") or, when nothing is memoized, a bad response.
FetchFails(c) ==
  /\ pc[c] = "fetch"
  /\ LET name == pending[c].package.name IN
       \/ /\ name \notin RegistryNames
          /\ cache' = cache \cup {name}
          /\ Finish(c, ErrorFor("err_not_exist", pending[c].package))
       \/ /\ name \notin cache
          /\ cache' = cache
          /\ Finish(c, Outcome("err_http"))
  /\ UNCHANGED <<nodes, rootChildren, stored, vec, pre, observed, observedIn, run, firstSnap, cvars, fvars, avars, tvars>>

\* api.package_info(name).await returns the info, but no version matches.
VersionNotFound(c) ==
  /\ pc[c] = "fetch"
  /\ pending[c].package.name \in RegistryNames
  /\ LET package == pending[c].package
         versions == {vi.version : vi \in Registry[package.name]}
     IN \E order \in SeqsOf(versions) :
          GetResolvedPackageVersion(package.version_req, order) = NoVersion
  /\ cache' = cache \cup {pending[c].package.name}
  /\ Finish(c, ErrorFor("err_version", pending[c].package))
  /\ UNCHANGED <<nodes, rootChildren, stored, vec, pre, observed, observedIn, run, firstSnap, cvars, fvars, avars, tvars>>

\* The PackageContext add_package creates for the chosen version.
NewContext(c, parent, info) ==
  [parent |-> parent, version |-> info.version, info |-> info,
   children |-> NoChildren, non_children |-> NoNonChildren, by |-> c]

\* api.package_info(name).await returns the info: the best version is chosen,
\* its context inserted into the insert context, and its dependencies, sorted
\* by name, become the innermost dependency loop.
InsertChild(c) ==
  /\ pc[c] = "fetch"
  /\ pending[c].package.name \in RegistryNames
  /\ Len(nodes) < MaxNodes
  /\ LET package == pending[c].package
         insert_context == pending[c].ctx
         versions == {vi.version : vi \in Registry[package.name]}
         id == Len(nodes) + 1
     IN \E order \in SeqsOf(versions) :
          LET version == GetResolvedPackageVersion(package.version_req, order)
          IN /\ version # NoVersion
             /\ LET info == InfoOf(package.name, version) IN
                \E depOrder \in SeqsOf(DOMAIN info.dependencies) :
                  LET dependencies ==
                        SortByName(DependenciesAsReferences(info, depOrder))
                      child == NewContext(c, insert_context, info)
                  IN /\ IF insert_context = Root
                        THEN /\ rootChildren' = InsertRootChild(package.name, id)
                             /\ nodes' = Append(nodes, child)
                        ELSE /\ rootChildren' = rootChildren
                             /\ nodes' = InsertPackageChild(
                                  Append(nodes, child), insert_context,
                                  package.name, id)
                     /\ stack' = [stack EXCEPT
                          ![c] = Append(@, [ctx |-> id, deps |-> dependencies])]
  /\ cache' = cache \cup {pending[c].package.name}
  /\ pc' = [pc EXCEPT ![c] = "run"]
  /\ pending' = [pending EXCEPT ![c] = NoPending]
  /\ UNCHANGED <<stored, holder, queue, result, vec, pre, observed, observedIn, run, firstSnap, cvars, fvars, avars, tvars>>

\* Every package was added: *self.stored.write() = context.as_stored().
Publish(c) ==
  /\ pc[c] = "run"
  /\ Unwind(stack[c]) = <<>>
  /\ queue[c] = <<>>
  /\ \E ord \in NameOrders : stored' = AsStored(ord)
  /\ Finish(c, Outcome("ok"))
  /\ UNCHANGED <<nodes, rootChildren, cache, vec, pre, observed, observedIn, run, firstSnap, cvars, fvars, avars, tvars>>

\* The caller drops the future while it is suspended at an await.
Cancel(c) ==
  /\ \/ pc[c] = "lock"
     \/ pc[c] = "fetch" /\ pending[c].package.name \notin cache
  /\ Finish(c, Outcome("cancelled"))
  /\ UNCHANGED <<nodes, rootChildren, stored, cache, vec, pre, observed, observedIn, run, firstSnap, cvars, fvars, avars, tvars>>

\* A reader: self.stored.read(), from which resolve_package and all_packages
\* compute their result.
Read ==
  /\ observed' = stored
  /\ observedIn' = holder
  /\ UNCHANGED <<nodes, rootChildren, stored, holder, cache, pc, queue, stack,
                 pending, result, vec, pre, run, firstSnap, cvars, fvars, avars, tvars>>

\* A second NpmResolution is constructed and given the same vector.
Reconstruct ==
  /\ run = 1
  /\ pc[1] = "done" /\ result[1].kind = "ok"
  /\ pc[2] = "idle"
  /\ firstSnap' = stored
  /\ run' = 2
  /\ nodes' = <<>>
  /\ rootChildren' = NoChildren
  /\ stored' = EmptyStored
  /\ cache' = {}
  /\ pc' = [pc EXCEPT ![1] = "idle"]
  /\ result' = [result EXCEPT ![1] = Outcome("none")]
  /\ observed' = EmptyStored
  /\ observedIn' = 0
  /\ UNCHANGED <<holder, queue, stack, pending, vec, pre, cvars, fvars, avars, tvars>>

(***************************************************************************)
(* cache.rs / tarball.rs: NpmCache::ensure_package                         *)
(***************************************************************************)
\* The tasks of one process that call ensure_package.
Tasks == {1, 2}

\* The package ids whose folders are cached.
PackageIds == {"x", "y"}

InitCache ==
  /\ folder = [id \in PackageIds |-> "absent"]
  /\ tpc = [t \in Tasks |-> "idle"]
  /\ tid = [t \in Tasks |-> "x"]
  /\ tresult = [t \in Tasks |-> "none"]
  /\ returned = [t \in Tasks |-> "none"]
  /\ original = [t \in Tasks |-> "none"]
  /\ extracting = 0

\* Path::exists of package_folder(id).
Exists(id) == folder[id] # "absent"

\* The call returns.
Return(t, how, state) ==
  /\ tpc' = [tpc EXCEPT ![t] = "idle"]
  /\ tresult' = [tresult EXCEPT ![t] = how]
  /\ returned' = [returned EXCEPT ![t] = state]

\* ensure_package up to its first await: the folder exists and is returned, or
\* the tarball is requested.
EnsureTestExists(t, id) ==
  /\ tpc[t] = "idle"
  /\ extracting = 0
  /\ tid' = [tid EXCEPT ![t] = id]
  /\ IF Exists(id)
     THEN Return(t, "ok", folder[id])
     ELSE /\ tpc' = [tpc EXCEPT ![t] = "get"]
          /\ tresult' = [tresult EXCEPT ![t] = "none"]
          /\ returned' = [returned EXCEPT ![t] = "none"]
  /\ UNCHANGED <<folder, original, extracting, rvars, fvars, avars, tvars>>

\* reqwest::get(&dist.tarball).await completes: an error, a 404, another
\* non-success status, or a success whose body is then awaited.
GetResponse(t, status) ==
  /\ tpc[t] = "get"
  /\ extracting = 0
  /\ CASE status = "error" -> Return(t, "err_request", "none")
       [] status = "404" -> Return(t, "err_tarball_not_found", "none")
       [] status = "500" -> Return(t, "err_bad_response", "none")
       [] OTHER -> /\ tpc' = [tpc EXCEPT ![t] = "bytes"]
                   /\ UNCHANGED <<tresult, returned>>
  /\ UNCHANGED <<folder, tid, original, extracting, rvars, fvars, avars, tvars>>

\* response.bytes().await fails.
BytesFail(t) ==
  /\ tpc[t] = "bytes"
  /\ extracting = 0
  /\ Return(t, "err_request", "none")
  /\ UNCHANGED <<folder, tid, original, extracting, rvars, fvars, avars, tvars>>

\* response.bytes().await completes and verify_tarball rejects the bytes:
\* extract_tarball is not called, the cleanup follows.
VerifyFails(t) ==
  /\ tpc[t] = "bytes"
  /\ extracting = 0
  /\ tpc' = [tpc EXCEPT ![t] = "cleanup"]
  /\ original' = [original EXCEPT ![t] = "err_verify"]
  /\ extracting' = t
  /\ UNCHANGED <<folder, tid, tresult, returned, rvars, fvars, avars, tvars>>

\* response.bytes().await completes, verify_tarball accepts the bytes and
\* extract_tarball starts to unpack the archive into package_folder(id).
ExtractStart(t) ==
  /\ tpc[t] = "bytes"
  /\ extracting = 0
  /\ tpc' = [tpc EXCEPT ![t] = "unpack"]
  /\ folder' = [folder EXCEPT ![tid[t]] = "partial"]
  /\ extracting' = t
  /\ UNCHANGED <<tid, tresult, returned, original, rvars, fvars, avars, tvars>>

\* archive.unpack wrote the last entry: Ok(package_folder).
ExtractDone(t) ==
  /\ tpc[t] = "unpack"
  /\ folder' = [folder EXCEPT ![tid[t]] = "complete"]
  /\ extracting' = 0
  /\ Return(t, "ok", "complete")
  /\ UNCHANGED <<tid, original, rvars, fvars, avars, tvars>>

\* archive.unpack fails at some entry.
ExtractFails(t) ==
  /\ tpc[t] = "unpack"
  /\ tpc' = [tpc EXCEPT ![t] = "cleanup"]
  /\ original' = [original EXCEPT ![t] = "err_extract"]
  /\ UNCHANGED <<folder, tid, tresult, returned, extracting, rvars, fvars, avars, tvars>>

\* The cleanup as it would be if a failed removal were dropped and the
\* original error returned alone.
CleanupDropsRemoveError(t, removed) ==
  /\ tpc[t] = "cleanup"
  /\ extracting' = 0
  /\ folder' = IF removed THEN [folder EXCEPT ![tid[t]] = "absent"] ELSE folder
  /\ Return(t, original[t], "none")
  /\ original' = [original EXCEPT ![t] = "none"]
  /\ UNCHANGED <<tid, rvars, fvars, avars, tvars>>

\* fs::remove_dir_all(&package_folder) after the error: the folder is removed
\* (or was not there) and the original error returned, or the removal fails
\* and the error that carries both is returned.
Cleanup(t, removed) ==
  /\ tpc[t] = "cleanup"
  /\ extracting' = 0
  /\ IF removed \/ ~Exists(tid[t])
     THEN /\ folder' = [folder EXCEPT ![tid[t]] = "absent"]
          /\ Return(t, original[t], "none")
     ELSE /\ folder' = folder
          /\ Return(t, "err_cleanup", "none")
  /\ original' = [original EXCEPT ![t] = "none"]
  /\ UNCHANGED <<tid, rvars, fvars, avars, tvars>>

\* The process is interrupted: every call in progress is gone, the disk
\* stays as it is, and the next run of the process starts.
Interrupt ==
  /\ \E t \in Tasks : tpc[t] # "idle"
  /\ tpc' = [t \in Tasks |-> "idle"]
  /\ tresult' = [t \in Tasks |-> "none"]
  /\ returned' = [t \in Tasks |-> "none"]
  /\ original' = [t \in Tasks |-> "none"]
  /\ extracting' = 0
  /\ UNCHANGED <<folder, tid, rvars, fvars, avars, tvars>>

(***************************************************************************)
(* registry.rs: NpmRegistryApi::package_info and maybe_package_info        *)
(***************************************************************************)
\* The package names the calls are for.
ApiNames == {"p", "q"}

\* The documents the registry serves for a name at different times.
Infos == {"info1", "info2"}

\* HashMap::get(name): no entry, or the memoized Option<NpmPackageInfo>.
NoEntry == "absent"

NoneEntry == "None"

ApiMethods == {"maybe_package_info", "package_info"}

\* What a call returned, and the response it saw: "" when it issued no
\* request, else "error" (no response), "404", "500" or "200".
ApiNoResult == [kind |-> "none", value |-> "", seen |-> ""]

ApiOk(value, seen) == [kind |-> "Ok", value |-> value, seen |-> seen]

ApiErr(error, seen) == [kind |-> "Err", value |-> error, seen |-> seen]

InitRegistryApi ==
  /\ apiCache = [n \in ApiNames |-> NoEntry]
  /\ apc = [t \in Tasks |-> "idle"]
  /\ aop = [t \in Tasks |-> "maybe_package_info"]
  /\ aname = [t \in Tasks |-> "p"]
  /\ aresult = [t \in Tasks |-> ApiNoResult]

\* package_info as it would be if a missing package were returned as Ok.
ThroughPackageInfoNoBail(method, maybe_info, seen) == ApiOk(maybe_info, seen)

\* The result of maybe_package_info, passed through package_info's match when
\* that is the method called: None becomes "package '{}' does not exist".
ThroughPackageInfo(method, maybe_info, seen) ==
  IF method = "package_info" /\ maybe_info = NoneEntry
  THEN ApiErr("err_not_exist", seen)
  ELSE ApiOk(maybe_info, seen)

ApiReturn(t, r) ==
  /\ apc' = [apc EXCEPT ![t] = "idle"]
  /\ aresult' = [aresult EXCEPT ![t] = r]

\* maybe_package_info as it would be without the look into the cache.
ApiCallAlwaysRequests(t, method, name) ==
  /\ apc[t] = "idle"
  /\ aop' = [aop EXCEPT ![t] = method]
  /\ aname' = [aname EXCEPT ![t] = name]
  /\ apc' = [apc EXCEPT ![t] = "request"]
  /\ aresult' = [aresult EXCEPT ![t] = ApiNoResult]
  /\ UNCHANGED <<apiCache, rvars, cvars, fvars, tvars>>

\* maybe_package_info up to its first await: the memoized entry is returned,
\* or the request is issued.
ApiCall(t, method, name) ==
  /\ apc[t] = "idle"
  /\ aop' = [aop EXCEPT ![t] = method]
  /\ aname' = [aname EXCEPT ![t] = name]
  /\ IF apiCache[name] # NoEntry
     THEN ApiReturn(t, ThroughPackageInfo(method, apiCache[name], ""))
     ELSE /\ apc' = [apc EXCEPT ![t] = "request"]
          /\ aresult' = [aresult EXCEPT ![t] = ApiNoResult]
  /\ UNCHANGED <<apiCache, rvars, cvars, fvars, tvars>>

\* reqwest::get(url).await completes: a request error, a 404 (None is
\* memoized and returned), another non-success status, or a success whose
\* body is then awaited.
ApiStatus(t, status) ==
  /\ apc[t] = "request"
  /\ CASE status = "error" ->
            /\ ApiReturn(t, ApiErr("err_request", status))
            /\ UNCHANGED apiCache
       [] status = "404" ->
            /\ apiCache' = [apiCache EXCEPT ![aname[t]] = NoneEntry]
            /\ ApiReturn(t, ThroughPackageInfo(aop[t], NoneEntry, status))
       [] status = "500" ->
            /\ ApiReturn(t, ApiErr("err_bad_response", status))
            /\ UNCHANGED apiCache
       [] OTHER ->
            /\ apc' = [apc EXCEPT ![t] = "bytes"]
            /\ UNCHANGED <<apiCache, aresult>>
  /\ UNCHANGED <<aop, aname, rvars, cvars, fvars, tvars>>

\* response.bytes().await completes: the body could not be read or is not a
\* package document, or it is parsed into the info, memoized and returned.
ApiBody(t, body) ==
  /\ apc[t] = "bytes"
  /\ IF body \in Infos
     THEN /\ apiCache' = [apiCache EXCEPT ![aname[t]] = body]
          /\ ApiReturn(t, ThroughPackageInfo(aop[t], body, "200"))
     ELSE /\ ApiReturn(t, ApiErr(body, "200"))
          /\ UNCHANGED apiCache
  /\ UNCHANGED <<aop, aname, rvars, cvars, fvars, tvars>>

\* The caller drops the future while it is suspended at an await.
ApiCancel(t) ==
  /\ apc[t] \in {"request", "bytes"}
  /\ ApiReturn(t, [kind |-> "cancelled", value |-> "", seen |-> ""])
  /\ UNCHANGED <<apiCache, aop, aname, rvars, cvars, fvars, tvars>>

(***************************************************************************)
(* Specifications.                                                         *)
(***************************************************************************)
\* The resolution, the package cache and the task set as constructed.
InitProgram == InitResolution /\ InitCache /\ InitRegistryApi /\ InitTranslator

Init == InitProgram /\ InitFunctions

Next ==
  \/ \E c \in Calls, v \in ReqVectors : Call(c, v)
  \/ \E c \in Calls : Acquire(c)
  \/ \E c \in Calls : AddPackage(c)
  \/ \E c \in Calls : FetchFails(c)
  \/ \E c \in Calls : VersionNotFound(c)
  \/ \E c \in Calls : InsertChild(c)
  \/ \E c \in Calls : Publish(c)
  \/ \E c \in Calls : Cancel(c)
  \/ Read

\* One NpmResolution and its callers and readers.
Spec == Init /\ [][Next]_vars

NextTwice == Next \/ Reconstruct

\* The same vector given to two NpmResolutions constructed one after the other.
SpecTwice == Init /\ [][NextTwice]_vars

NextCache ==
  \/ \E t \in Tasks, id \in PackageIds : EnsureTestExists(t, id)
  \/ \E t \in Tasks, status \in {"error", "404", "500", "200"} : GetResponse(t, status)
  \/ \E t \in Tasks : BytesFail(t)
  \/ \E t \in Tasks : VerifyFails(t)
  \/ \E t \in Tasks : ExtractStart(t)
  \/ \E t \in Tasks : ExtractDone(t)
  \/ \E t \in Tasks : ExtractFails(t)
  \/ \E t \in Tasks, removed \in BOOLEAN : Cleanup(t, removed)
  \/ Interrupt

\* One NpmCache directory and the tasks that call ensure_package on it.
SpecCache == Init /\ [][NextCache]_vars

NextRegistryApi ==
  \/ \E t \in Tasks, method \in ApiMethods, name \in ApiNames : ApiCall(t, method, name)
  \/ \E t \in Tasks, status \in {"error", "404", "500", "200"} : ApiStatus(t, status)
  \/ \E t \in Tasks, body \in Infos \cup {"err_body", "err_json"} : ApiBody(t, body)
  \/ \E t \in Tasks : ApiCancel(t)

\* One NpmRegistryApi, its clones, and the tasks that call it.
SpecRegistryApi == Init /\ [][NextRegistryApi]_vars

(***************************************************************************)
(* Properties.                                                             *)
(***************************************************************************)
\* The names the registry's versions of n depend on (aliases expanded).
DepNames(n) ==
  IF n \in RegistryNames
  THEN UNION {{EntryAsReference(k, vi.dependencies[k]).name :
                 k \in DOMAIN vi.dependencies} : vi \in Registry[n]}
  ELSE {}

RECURSIVE Closure(_)
Closure(S) ==
  LET next == S \cup UNION {DepNames(n) : n \in S}
  IN IF next = S THEN S ELSE Closure(next)

\* The names required by the calls that returned Ok.
RequiredBySuccessful ==
  UNION {{vec[c][i].name : i \in 1..Len(vec[c])} : c \in {d \in Calls : result[d].kind = "ok"}}

\* The dependency entries the registry declares for a published package.
DeclaredEntries(id) ==
  LET info == InfoOf(id[1], id[2])
  IN {EntryAsReference(k, info.dependencies[k]) : k \in DOMAIN info.dependencies}

VersionsOf(name) == {vi.version : vi \in Registry[name]}

\* C1: add_packages calls hold the permit one at a time from lock().await to
\* the publication, the published snapshot does not change while a call
\* holds the permit, and a read made while a call holds the permit sees the
\* snapshot that was published when that call acquired the permit.
C1_SerializedAtomicReads ==
  /\ \A c, d \in Calls : InCritical(c) /\ InCritical(d) => c = d
  /\ \A c \in Calls : InCritical(c) => holder = c /\ stored = pre[c]
  /\ observedIn # 0 => observed = pre[observedIn]

\* C1 witness: a call is suspended at package_info().await with some of its
\* packages already in the context, the other call waits for the permit, and
\* a read was made meanwhile.
C1_Witness ==
  \E c, d \in Calls :
    /\ c # d
    /\ pc[c] = "fetch" /\ pc[d] = "lock"
    /\ \E i \in 1..Len(nodes) : nodes[i].by = c
    /\ observedIn = c

\* C2: the work of a failed or cancelled add_packages call is discarded, so a
\* snapshot published later holds only packages that the successful calls
\* require, directly or through dependencies.
C2_FailedWorkDiscarded ==
  \A id \in DOMAIN stored.packages : id[1] \in Closure(RequiredBySuccessful)

\* C3: in the published snapshot every top-level value and every value of a
\* dependencies map is a key of packages, and resolve_package never unwraps
\* a missing id.
C3_SnapshotClosed ==
  /\ \A n \in DOMAIN stored.top_level_packages :
       stored.top_level_packages[n] \in DOMAIN stored.packages
  /\ \A id \in DOMAIN stored.packages :
       \A k \in DOMAIN stored.packages[id].dependencies :
         stored.packages[id].dependencies[k] \in DOMAIN stored.packages
  /\ \A n \in Names, referrer \in DOMAIN stored.packages \cup {NoId} :
       ResolvePackage(stored, n, referrer).kind # "UnwrapNone"

\* C3 witness: two add_packages calls were successful and the published
\* snapshot has several top-level packages.
C3_Witness ==
  /\ \A c \in Calls : result[c].kind = "ok"
  /\ Cardinality(DOMAIN stored.top_level_packages) >= 2
  /\ ResolvePackage(stored, "c", NoId).kind = "Ok"

\* C4: after successful add_packages calls, every requirement passed to them
\* is bound at top level to a version that satisfies its range.
C4_TopLevelSatisfies ==
  \A c \in Calls :
    result[c].kind = "ok" =>
      \A i \in 1..Len(vec[c]) :
        /\ vec[c][i].name \in DOMAIN stored.top_level_packages
        /\ Matches(vec[c][i].version_req,
                   stored.top_level_packages[vec[c][i].name][2])

\* C5: when two published packages declare ranges of one dependency name that
\* no single version satisfies, each package's dependencies map points to a
\* published version of that name satisfying its own range.
C5_ConflictingVersionsBothKept ==
  \A p, q \in DOMAIN stored.packages :
    \A e \in DeclaredEntries(p), f \in DeclaredEntries(q) :
      (/\ p # q
       /\ e.name = f.name
       /\ ~\E v \in VersionsOf(e.name) :
             Matches(e.version_req, v) /\ Matches(f.version_req, v))
      => /\ e.bare_specifier \in DOMAIN stored.packages[p].dependencies
         /\ stored.packages[p].dependencies[e.bare_specifier] \in DOMAIN stored.packages
         /\ stored.packages[p].dependencies[e.bare_specifier][1] = e.name
         /\ Matches(e.version_req,
                    stored.packages[p].dependencies[e.bare_specifier][2])

\* C7: every published package's dependencies map has a key for every bare
\* specifier of the package's registry dependencies.
C7_EveryBareSpecifierRecorded ==
  \A id \in DOMAIN stored.packages :
    \A e \in DeclaredEntries(id) :
      e.bare_specifier \in DOMAIN stored.packages[id].dependencies

\* The greatest version of the registry that satisfies the requirement.
IsGreatestMatch(package, v) ==
  /\ v \in VersionsOf(package.name)
  /\ Matches(package.version_req, v)
  /\ \A w \in VersionsOf(package.name) :
       Matches(package.version_req, w) => ~VersionLt(v, w)

\* C8: when a fetched package_info is resolved, the context inserted has the
\* greatest version satisfying the range, whatever the iteration order of
\* the versions map; when no version satisfies it the call fails with the
\* version-not-found error and no context is inserted.
C8_GreatestMatchingVersion ==
  [][\A c \in Calls :
       (/\ pc[c] = "fetch"
        /\ pc'[c] # "fetch"
        /\ pending[c].package.name \in RegistryNames
        /\ result'[c].kind \notin {"cancelled", "err_http"})
       => IF \E v \in VersionsOf(pending[c].package.name) :
               Matches(pending[c].package.version_req, v)
          THEN /\ pc'[c] = "run"
               /\ Len(nodes') = Len(nodes) + 1
               /\ IsGreatestMatch(pending[c].package, nodes'[Len(nodes')].version)
               /\ IF pending[c].ctx = Root
                  THEN rootChildren'[pending[c].package.name] = Len(nodes')
                  ELSE nodes'[pending[c].ctx].children[pending[c].package.name]
                         = Len(nodes')
          ELSE /\ result'[c] = ErrorFor("err_version", pending[c].package)
               /\ nodes' = nodes
               /\ rootChildren' = rootChildren]_vars

\* C8 witness: c@^5.0.0 was resolved over {5.0.0, 5.1.0, 4.9.0} to 5.1.0, and
\* a call for c@^6.0.0 failed with the version-not-found error.
C8_Witness ==
  /\ \E i \in 1..Len(nodes) : nodes[i].version = Ver(5, 1, 0)
  /\ \E c \in Calls : result[c] = ErrorFor("err_version", Ref("c", Caret(6, 0, 0)))

\* C9: the second NpmResolution, given the same vector against the same
\* registry, publishes the snapshot the first one published.
C9_SameSnapshotTwice ==
  (run = 2 /\ result[1].kind = "ok") => stored = firstSnap

\* C10: ensure_package returns Ok only with a completely extracted folder.
C10_OkFolderComplete ==
  \A t \in Tasks : tresult[t] = "ok" => returned[t] = "complete"

\* C11: no call for an id that begins while a finished call's Ok for that id
\* stands goes past the exists test to request the tarball.
C11_NoDownloadAfterOk ==
  [][\A t \in Tasks, id \in PackageIds :
       (/\ tpc[t] = "idle"
        /\ tid'[t] = id
        /\ \E u \in Tasks : tpc[u] = "idle" /\ tresult[u] = "ok" /\ tid[u] = id)
       => tpc'[t] # "get"]_vars

\* The errors of ensure_package that the cleanup did not replace.
PlainErrors ==
  {"err_tarball_not_found", "err_bad_response", "err_verify", "err_extract"}

\* C12 as stated: whenever a call returns one of these errors, the folder of
\* its id does not exist at that moment.
C12_ErrorMeansFolderAbsent ==
  [][\A t \in Tasks :
       (tpc[t] # "idle" /\ tpc'[t] = "idle" /\ tresult'[t] \in PlainErrors)
       => folder'[tid[t]] = "absent"]_vars

\* C12 amended: a call that fails after verify_and_extract_tarball returned
\* an error returns that error exactly when the folder is gone at its return,
\* and the error that carries the original and the removal error when the
\* folder is still there; a call that fails before that (request error, 404,
\* other status, body error) returns without touching the disk.
C12_CleanupOnExtractError ==
  [][\A t \in Tasks :
       /\ (tpc[t] = "cleanup" /\ tpc'[t] = "idle" /\ tresult'[t] # "none")
          => IF folder'[tid[t]] = "absent"
             THEN tresult'[t] = original[t] /\ original[t] \in PlainErrors
             ELSE tresult'[t] = "err_cleanup"
       /\ (tpc[t] \in {"get", "bytes"} /\ tpc'[t] = "idle" /\ tresult'[t] # "none")
          => /\ folder' = folder
             /\ tresult'[t] \in
                  {"err_request", "err_tarball_not_found", "err_bad_response"}]_vars

\* C12 witness: one call returned the extraction error with its folder
\* removed, another returned the combined error with its folder left behind.
C12_Witness ==
  \E t, u \in Tasks :
    /\ tpc[t] = "idle" /\ tresult[t] = "err_extract" /\ folder[tid[t]] = "absent"
    /\ tpc[u] = "idle" /\ tresult[u] = "err_cleanup" /\ folder[tid[u]] = "partial"

(***************************************************************************)
(* tarball.rs: verify_tarball.  Strings are sequences of characters.       *)
(***************************************************************************)
\* str::to_lowercase, on the ASCII letters that occur.
LowerChar(ch) ==
  CASE ch = "A" -> "a" [] ch = "H" -> "h" [] ch = "P" -> "p" [] ch = "Q" -> "q"
    [] ch = "S" -> "s" [] ch = "T" -> "t" [] ch = "U" -> "u" [] ch = "W" -> "w"
    [] OTHER -> ch

ToLowercase(s) == [i \in 1..Len(s) |-> LowerChar(s[i])]

\* The index of the first occurrence of ch in s from position i on, 0 when
\* there is none.
RECURSIVE Find(_, _, _)
Find(s, ch, i) ==
  IF i > Len(s) THEN 0 ELSE IF s[i] = ch THEN i ELSE Find(s, ch, i + 1)

\* str::split_once: None, or the text before and the text after the first ch.
SplitOnce(s, ch) ==
  LET i == Find(s, ch, 1)
  IN IF i = 0
     THEN [some |-> FALSE, before |-> <<>>, after |-> <<>>]
     ELSE [some |-> TRUE, before |-> SubSeq(s, 1, i - 1),
           after |-> SubSeq(s, i + 1, Len(s))]

Sha512Name == <<"s", "h", "a", "5", "1", "2">>

\* The tarball bytes the calls are made with.
Datas == {<<>>, <<0>>, <<1>>}

\* base64::encode of the SHA-512 digest of the data: one base64 text for
\* each data, two of them differing in letter case only.
Base64Digest(data) ==
  CASE data = <<>> -> <<"z", "4", "P", "h", "=">>
    [] data = <<0>> -> <<"u", "T", "w", "Q", "=">>
    [] OTHER -> <<"U", "t", "W", "q", "=">>

\* What verify_tarball returns: Ok(()) or one of its three bail! errors with
\* the values the message is formatted from.
VerifyOk ==
  [kind |-> "ok", package |-> "", what |-> <<>>, expected |-> <<>>, actual |-> <<>>]

VerifyErr(kind, package, what, expected, actual) ==
  [kind |-> kind, package |-> package, what |-> what, expected |-> expected,
   actual |-> actual]

\* The expected checksum compared as given, without to_lowercase.
ExpectedChecksumAsGiven(checksum) == checksum

\* (algo, checksum.to_lowercase()): the expected side of the comparison.
ExpectedChecksum(checksum) == ToLowercase(checksum)

VerifyTarball(package, data, npm_integrity) ==
  LET split == SplitOnce(npm_integrity, "-")
  IN IF ~split.some
     THEN VerifyErr("not_implemented_integrity_kind", package, npm_integrity,
                    <<>>, <<>>)
     ELSE IF split.before # Sha512Name
     THEN VerifyErr("not_implemented_hash_function", package, split.before,
                    <<>>, <<>>)
     ELSE LET expected_checksum == ExpectedChecksum(split.after)
              tarball_checksum == ToLowercase(Base64Digest(data))
          IN IF tarball_checksum # expected_checksum
             THEN VerifyErr("checksum_mismatch", package, <<>>,
                            expected_checksum, tarball_checksum)
             ELSE VerifyOk

\* The packages, hash kinds and checksum texts the integrity strings of the
\* calls are made of.
VerifyPackages == {"package@1.0.0", "@types/node@18.0.0"}

HashKinds ==
  {Sha512Name, <<"s", "h", "a", "1">>, <<"S", "H", "A", "5", "1", "2">>,
   <<"t", "e", "s", "t">>, <<>>}

Checksums ==
  {Base64Digest(d) : d \in Datas} \cup {ToLowercase(Base64Digest(d)) : d \in Datas}
    \cup {<<"t", "e", "s", "t">>, <<>>, <<"z", "4", "-", "P", "h", "=">>}

Integrities == HashKinds \cup {k \o <<"-">> \o c : k \in HashKinds, c \in Checksums}

VerifyInputs ==
  [op : {"verify_tarball"}, package : VerifyPackages, data : Datas,
   npm_integrity : Integrities]

InitVerify == InitProgram /\ input \in VerifyInputs /\ output = NoOutput

\* One call verify_tarball(package, data, npm_integrity).
CallVerifyTarball ==
  /\ input.op = "verify_tarball"
  /\ output = NoOutput
  /\ output' = VerifyTarball(input.package, input.data, input.npm_integrity)
  /\ UNCHANGED <<input, rvars, cvars, avars, tvars>>

NextVerify == CallVerifyTarball

\* verify_tarball applied to each package, data and integrity string.
SpecVerify == InitVerify /\ [][NextVerify]_vars

\* The position of the first '-' of an integrity string that has one.
FirstDash(s) ==
  CHOOSE i \in 1..Len(s) : s[i] = "-" /\ \A j \in 1..(i - 1) : s[j] # "-"

HasDash(s) == \E i \in 1..Len(s) : s[i] = "-"

\* C13: verify_tarball returns Ok exactly when the integrity has a '-', the
\* text before the first '-' is "sha512" and the lowercased base64 digest of
\* the data equals the lowercased text after it; without a '-' the error is
\* the unsupported integrity kind, with another algorithm the unsupported
\* hash function whatever the data, and on a digest mismatch the error
\* carries the package id, the expected and the actual checksum.
C13_VerifyExactly ==
  (input.op = "verify_tarball" /\ output # NoOutput) =>
    LET s == input.npm_integrity
        algo == SubSeq(s, 1, FirstDash(s) - 1)
        text == SubSeq(s, FirstDash(s) + 1, Len(s))
        digest == ToLowercase(Base64Digest(input.data))
    IN /\ output.kind = "ok"
            <=> (HasDash(s) /\ algo = Sha512Name /\ digest = ToLowercase(text))
       /\ ~HasDash(s) =>
            /\ output.kind = "not_implemented_integrity_kind"
            /\ output.package = input.package /\ output.what = s
       /\ (HasDash(s) /\ algo # Sha512Name) =>
            /\ output.kind = "not_implemented_hash_function"
            /\ output.package = input.package /\ output.what = algo
       /\ (HasDash(s) /\ algo = Sha512Name /\ digest # ToLowercase(text)) =>
            /\ output.kind = "checksum_mismatch"
            /\ output.package = input.package
            /\ output.expected = ToLowercase(text) /\ output.actual = digest

\* C13 witness: an integrity "sha512-" followed by the digest in its own
\* mixed case was accepted.
C13_Witness ==
  /\ input.op = "verify_tarball"
  /\ output.kind = "ok"
  /\ input.npm_integrity = Sha512Name \o <<"-">> \o Base64Digest(input.data)
  /\ Base64Digest(input.data) # ToLowercase(Base64Digest(input.data))

(***************************************************************************)
(* cache.rs: package_folder and get_package_from_referrer.  A path or URL  *)
(* text is a sequence of atoms, the separator "/" being one of them; a     *)
(* PathBuf is the sequence of its components.                              *)
(***************************************************************************)
\* str::split(sep): the pieces between the separators, at least one.
RECURSIVE Split(_, _)
Split(s, sep) ==
  LET i == Find(s, sep, 1)
  IN IF i = 0
     THEN <<s>>
     ELSE <<SubSeq(s, 1, i - 1)>> \o Split(SubSeq(s, i + 1, Len(s)), sep)

\* [..].join(sep)
RECURSIVE Join(_, _)
Join(parts, sep) ==
  IF Len(parts) = 0 THEN <<>>
  ELSE IF Len(parts) = 1 THEN parts[1]
  ELSE parts[1] \o <<sep>> \o Join(Tail(parts), sep)

\* str::starts_with
StartsWith(s, prefix) ==
  Len(s) >= Len(prefix) /\ SubSeq(s, 1, Len(prefix)) = prefix

\* semver::Version::to_string
VersionToString(v) ==
  <<ToString(v[1]), ".", ToString(v[2]), ".", ToString(v[3])>>

Digits == 0..9

IsNumber(atom) == \E n \in Digits : ToString(n) = atom

NumberOf(atom) == CHOOSE n \in Digits : ToString(n) = atom

\* semver::Version::parse: Ok for "M.m.p", Err otherwise.
IsVersionText(s) ==
  /\ Len(s) = 5
  /\ s[2] = "." /\ s[4] = "."
  /\ IsNumber(s[1]) /\ IsNumber(s[3]) /\ IsNumber(s[5])

VersionParse(s) == Ver(NumberOf(s[1]), NumberOf(s[3]), NumberOf(s[5]))

\* NpmPackageId { name, version }
PackageId(name, version) == [name |-> name, version |-> version]

\* NpmCache::package_folder: root_dir joined with each part of the name,
\* the version and "package".
PackageFolder(root_dir, id) ==
  root_dir \o Split(id.name, "/") \o <<VersionToString(id.version)>>
    \o <<<<"package">>>>

\* The length of the longest common prefix of two paths.
RECURSIVE CommonPrefix(_, _)
CommonPrefix(p, q) ==
  IF Len(p) = 0 \/ Len(q) = 0 \/ Head(p) # Head(q)
  THEN 0
  ELSE 1 + CommonPrefix(Tail(p), Tail(q))

\* A file or other URL: its scheme and the segments of its path.
Url(scheme, path) == [scheme |-> scheme, path |-> path]

\* Url::from_directory_path(&root_dir)
FromDirectoryPath(root_dir) == Url("file", root_dir)

NoText == [some |-> FALSE, text |-> <<>>]

SomeText(s) == [some |-> TRUE, text |-> s]

\* Url::make_relative from a directory URL: None for another scheme, else
\* one ".." for each directory of the base that the URL is not under,
\* followed by the rest of the URL's path.
MakeRelative(base, url) ==
  IF base.scheme # url.scheme
  THEN NoText
  ELSE LET k == CommonPrefix(base.path, url.path)
           ups == [i \in 1..(Len(base.path) - k) |-> <<"..">>]
       IN SomeText(Join(ups \o SubSeq(url.path, k + 1, Len(url.path)), "/"))

\* .enumerate().take_while(|(i, part)| *i < 2 || *part != "package"), with
\* i the index of the head of parts.
RECURSIVE TakeWhileNotPackage(_, _)
TakeWhileNotPackage(parts, i) ==
  IF Len(parts) = 0 THEN <<>>
  ELSE IF i < 2 \/ Head(parts) # <<"package">>
  THEN <<Head(parts)>> \o TakeWhileNotPackage(Tail(parts), i + 1)
  ELSE <<>>

\* The take_while as it would be without the index test.
StopAtFirstPackage(parts) ==
  IF \E i \in 1..Len(parts) : parts[i] = <<"package">>
  THEN SubSeq(parts, 1,
         (CHOOSE i \in 1..Len(parts) :
            parts[i] = <<"package">> /\ \A j \in 1..(i - 1) : parts[j] # <<"package">>) - 1)
  ELSE parts

\* The parts of the relative URL that make the name and the version.
IdParts(parts) == TakeWhileNotPackage(parts, 0)

ReferrerNone == [kind |-> "None", id |-> PackageId(<<>>, NoVersion)]

ReferrerSome(id) == [kind |-> "Some", id |-> id]

ReferrerPanic == [kind |-> "panic", id |-> PackageId(<<>>, NoVersion)]

\* NpmCache::get_package_from_referrer
GetPackageFromReferrer(root_dir, referrer) ==
  LET relative_url == MakeRelative(FromDirectoryPath(root_dir), referrer)
  IN IF ~relative_url.some THEN ReferrerNone
     ELSE IF StartsWith(relative_url.text, <<"..", "/">>) THEN ReferrerNone
     ELSE LET parts == IdParts(Split(relative_url.text, "/"))
          IN IF Len(parts) = 0 THEN ReferrerPanic
             ELSE LET version == parts[Len(parts)]
                      name == Join(SubSeq(parts, 1, Len(parts) - 1), "/")
                  IN IF IsVersionText(version)
                     THEN ReferrerSome(PackageId(name, VersionParse(version)))
                     ELSE ReferrerPanic

\* The cache roots, package ids and referrers of the calls.
RootDirs == {<<<<"cache">>>>, <<<<"home">>, <<"npm">>>>}

IdNames ==
  {<<"chalk">>, <<"@types", "/", "chalk">>, <<"package">>,
   <<"@a", "/", "package">>, <<"@package", "/", "b">>}

IdVersions == {Ver(5, 0, 1), Ver(1, 0, 0)}

ReferrerIds == {PackageId(n, v) : n \in IdNames, v \in IdVersions}

\* Files of a package, relative to its folder.
FilesInPackage ==
  {<<<<"index.js">>>>, <<<<"lib">>, <<"package">>, <<"x.js">>>>,
   <<<<"node_modules">>, <<"chalk">>, <<"index.js">>>>}

\* URLs that are not under the cache root: a file beside the root, the
\* package's layout under another directory, and a remote URL.
UrlsOutside(root_dir, id) ==
  {Url("file", SubSeq(root_dir, 1, Len(root_dir) - 1) \o <<<<"x.js">>>>),
   Url("file", PackageFolder(<<<<"tmp">>>>, id) \o <<<<"index.js">>>>),
   Url("https", PackageFolder(root_dir, id) \o <<<<"index.js">>>>)}

ReferrerInputs ==
  UNION {
    {[op |-> "get_package_from_referrer", root_dir |-> r, id |-> id, referrer |-> u] :
       u \in {Url("file", PackageFolder(r, id) \o f) : f \in FilesInPackage}
               \cup UrlsOutside(r, id)} :
    r \in RootDirs, id \in ReferrerIds}

InitReferrer == InitProgram /\ input \in ReferrerInputs /\ output = NoOutput

\* package_folder(id) and get_package_from_referrer(referrer) on one NpmCache.
CallGetPackageFromReferrer ==
  /\ input.op = "get_package_from_referrer"
  /\ output = NoOutput
  /\ output' = [kind |-> "returned",
                folder |-> PackageFolder(input.root_dir, input.id),
                found |-> GetPackageFromReferrer(input.root_dir, input.referrer)]
  /\ UNCHANGED <<input, rvars, cvars, avars, tvars>>

NextReferrer == CallGetPackageFromReferrer

\* The folder of each package id and the id found back from URLs in and
\* outside the cache.
SpecReferrer == InitReferrer /\ [][NextReferrer]_vars

\* C14: the folder of an id is root/name parts/version/package, a file URL
\* under it is mapped back to Some(id), also for scoped names and for names
\* with a segment "package", and a URL that is not under the cache root is
\* mapped to None.
C14_ReferrerRoundTrip ==
  (input.op = "get_package_from_referrer" /\ output # NoOutput) =>
    LET root == input.root_dir
        url == input.referrer
        dir == output.folder
        n == Len(dir)
    IN /\ n > Len(root) + 2
       /\ SubSeq(dir, 1, Len(root)) = root
       /\ Join(SubSeq(dir, Len(root) + 1, n - 2), "/") = input.id.name
       /\ dir[n - 1] = VersionToString(input.id.version)
       /\ dir[n] = <<"package">>
       /\ (url.scheme = "file" /\ Len(url.path) > n /\ SubSeq(url.path, 1, n) = dir)
            => output.found = ReferrerSome(input.id)
       /\ (url.scheme # "file" \/ ~StartsWith(url.path, root))
            => output.found = ReferrerNone

\* C14 witness: a file under the folder of a scoped package whose second
\* segment is "package" was mapped back to its id.
C14_Witness ==
  /\ input.op = "get_package_from_referrer"
  /\ output # NoOutput
  /\ input.id.name = <<"@a", "/", "package">>
  /\ input.referrer.scheme = "file"
  /\ StartsWith(input.referrer.path, output.folder)
  /\ output.found = ReferrerSome(input.id)

\* The call returned a value of maybe_package_info: Some(info) or None (which
\* package_info turns into its error).
Completed(r) == r.kind = "Ok" \/ (r.kind = "Err" /\ r.value = "err_not_exist")

MaybeValue(r) == IF r.kind = "Ok" THEN r.value ELSE NoneEntry

\* The step is the beginning of a call by task u.
ApiCallBy(u) ==
  apc[u] = "idle" /\ (apc'[u] # "idle" \/ aresult'[u] # aresult[u])

\* C15 as stated: a call for a name that begins after a call for that name
\* completed with Some(info) or None returns that same value, and issues no
\* request.
C15_MemoizedValueStable ==
  [][\A t, u \in Tasks :
       (/\ ApiCallBy(u)
        /\ apc[t] = "idle" /\ Completed(aresult[t]) /\ aname[t] = aname'[u])
       => /\ apc'[u] = "idle"
          /\ aresult'[u].seen = ""
          /\ MaybeValue(aresult'[u]) = MaybeValue(aresult[t])]_vars

\* C15 amended: a call issues a request exactly when the cache has no entry
\* for its name and otherwise returns the entry; the entry of a name is
\* written exactly when a request for it completes with a success or a 404,
\* with the value that call returns (the last writer wins); a failed or
\* dropped call leaves the cache as it is, and an entry is never removed.
C15_LastWriterWins ==
  [][/\ \A u \in Tasks :
          ApiCallBy(u) =>
            IF apiCache[aname'[u]] = NoEntry
            THEN apc'[u] = "request"
            ELSE /\ apc'[u] = "idle"
                 /\ aresult'[u].seen = ""
                 /\ Completed(aresult'[u])
                 /\ MaybeValue(aresult'[u]) = apiCache[aname'[u]]
     /\ \A t \in Tasks :
          (apc[t] # "idle" /\ apc'[t] = "idle") =>
            IF Completed(aresult'[t])
            THEN apiCache' = [apiCache EXCEPT ![aname[t]] = MaybeValue(aresult'[t])]
            ELSE apiCache' = apiCache
     /\ \A n \in ApiNames :
          apiCache'[n] # apiCache[n] =>
            \E t \in Tasks : apc[t] # "idle" /\ apc'[t] = "idle" /\ aname[t] = n
     /\ \A n \in ApiNames : apiCache[n] # NoEntry => apiCache'[n] # NoEntry]_vars

\* C15 witness: a call returned the memoized info without a request, and a
\* call whose request failed left no entry for its name.
C15_Witness ==
  \E t, u \in Tasks :
    /\ apc[t] = "idle" /\ aresult[t] = ApiOk(apiCache[aname[t]], "")
    /\ apiCache[aname[t]] \in Infos
    /\ apc[u] = "idle" /\ aresult[u] = ApiErr("err_bad_response", "500")
    /\ apiCache[aname[u]] = NoEntry

\* What package_info makes of a value of maybe_package_info, and
\* maybe_package_info itself leaves alone.
Delivered(method, maybe_info, r) ==
  IF method = "package_info" /\ maybe_info = NoneEntry
  THEN r.kind = "Err" /\ r.value = "err_not_exist"
  ELSE r.kind = "Ok" /\ r.value = maybe_info

\* C16: a call that saw a 404 yields None, one that saw a success whose body
\* is a package document yields that info, and every other response is an
\* error; package_info returns the does-not-exist error exactly when
\* maybe_package_info yields None, from the response or from the memoized
\* entry, and the info otherwise.
C16_StatusMapping ==
  [][\A t \in Tasks :
       LET r == aresult'[t] IN
       /\ (ApiCallBy(t) /\ apc'[t] = "idle") =>
            /\ r.seen = ""
            /\ Delivered(aop'[t], apiCache[aname'[t]], r)
       /\ (apc[t] = "request" /\ apc'[t] = "idle" /\ r.kind # "cancelled") =>
            IF r.seen = "404"
            THEN Delivered(aop[t], NoneEntry, r) /\ apiCache'[aname[t]] = NoneEntry
            ELSE /\ r.seen \in {"error", "500"}
                 /\ r.kind = "Err"
                 /\ r.value \in {"err_request", "err_bad_response"}
       /\ (apc[t] = "bytes" /\ apc'[t] = "idle" /\ r.kind # "cancelled") =>
            /\ r.seen = "200"
            /\ \/ r.kind = "Ok" /\ r.value \in Infos /\ apiCache'[aname[t]] = r.value
               \/ r.kind = "Err" /\ r.value \in {"err_body", "err_json"}
       /\ (r.kind = "Err" /\ r.value = "err_not_exist") => aop'[t] = "package_info"]_vars

\* C16 witness: package_info returned the does-not-exist error from a
\* memoized None, without a request.
C16_Witness ==
  \E t \in Tasks :
    /\ apc[t] = "idle" /\ aop[t] = "package_info"
    /\ aresult[t] = ApiErr("err_not_exist", "")
    /\ apiCache[aname[t]] = NoneEntry

(***************************************************************************)
(* compat/mod.rs: resolve_new and its helpers.  Specifiers, exports keys   *)
(* and targets are sequences of characters; a PathBuf is the sequence of   *)
(* its components.                                                         *)
(***************************************************************************)
\* The index of the last occurrence of ch in s, 0 when there is none.
RECURSIVE FindLast(_, _, _)
FindLast(s, ch, i) ==
  IF i = 0 THEN 0 ELSE IF s[i] = ch THEN i ELSE FindLast(s, ch, i - 1)

\* str::ends_with
EndsWith(s, suffix) ==
  Len(s) >= Len(suffix) /\ SubSeq(s, Len(s) - Len(suffix) + 1, Len(s)) = suffix

\* str::replace(ch, with)
RECURSIVE Replace(_, _, _)
Replace(s, ch, with) ==
  IF Len(s) = 0 THEN <<>>
  ELSE (IF Head(s) = ch THEN with ELSE <<Head(s)>>) \o Replace(Tail(s), ch, with)

\* path_clean: "." and empty components dropped, ".." removes the component
\* before it (and is dropped at the root).
RECURSIVE CleanInto(_, _)
CleanInto(done, rest) ==
  IF Len(rest) = 0 THEN done
  ELSE LET c == Head(rest)
       IN IF c = <<".">> \/ c = <<>>
          THEN CleanInto(done, Tail(rest))
          ELSE IF c = <<".", ".">>
          THEN CleanInto(SubSeq(done, 1, Len(done) - 1), Tail(rest))
          ELSE CleanInto(Append(done, c), Tail(rest))

Clean(p) == CleanInto(<<>>, p)

\* PathBuf::join with a text: the text's components are pushed, and an
\* absolute text replaces the path.
PathJoin(p, text) ==
  IF StartsWith(text, <<"/">>) THEN Split(Tail(text), "/") ELSE p \o Split(text, "/")

\* Path::parent of a file path.
Parent(p) == SubSeq(p, 1, Len(p) - 1)

\* The file system: the files that exist; a directory exists when a file
\* is under it.
IsFile(files, p) == Clean(p) \in files

IsDir(files, p) ==
  \E f \in files : Len(f) > Len(Clean(p)) /\ SubSeq(f, 1, Len(Clean(p))) = Clean(p)

PathExists(files, p) == IsFile(files, p) \/ IsDir(files, p)

\* PathBuf::set_extension("js"): the extension of the file name (the text
\* after its last '.', unless that '.' is the first character) is replaced
\* by "js", or ".js" is added when it has none.
SetExtensionJs(p) ==
  IF Len(p) = 0 \/ p[Len(p)] = <<".", ".">> THEN p
  ELSE LET name == p[Len(p)]
           dot == FindLast(name, ".", Len(name))
           stem == IF dot > 1 THEN SubSeq(name, 1, dot - 1) ELSE name
       IN [p EXCEPT ![Len(p)] = stem \o <<".", "j", "s">>]

\* The results of resolve_new.
ResolveOk(path) == [kind |-> "Ok", path |-> path, error |-> ""]

ResolveErr(error, path) == [kind |-> "Err", path |-> path, error |-> error]

\* todo!() or unwrap() on None: the thread panics.
ResolvePanic(what) == [kind |-> "Panic", path |-> <<>>, error |-> what]

\* file_extension_probe
FileExtensionProbe(files, p) ==
  IF PathExists(files, p)
  THEN ResolveOk(Clean(p))
  ELSE LET q == SetExtensionJs(p)
       IN IF PathExists(files, q)
          THEN ResolveOk(q)
          ELSE ResolveErr("NotFound", Clean(q))

\* Option<usize>: str::find results, as 0-based byte indices.
NoIndex == [some |-> FALSE, index |-> 0]

SomeIndex(i) == [some |-> TRUE, index |-> i]

\* str::find(ch)
StrFind(s, ch) ==
  IF Find(s, ch, 1) = 0 THEN NoIndex ELSE SomeIndex(Find(s, ch, 1) - 1)

\* str::rfind(ch)
StrRFind(s, ch) ==
  IF FindLast(s, ch, Len(s)) = 0 THEN NoIndex
  ELSE SomeIndex(FindLast(s, ch, Len(s)) - 1)

\* &s[from..to], with 0-based byte indices.
Slice(s, from, to) == SubSeq(s, from + 1, to)

ParsedNone == [some |-> FALSE, package_name |-> <<>>, package_subpath |-> <<>>]

ParsedSome(name, subpath) ==
  [some |-> TRUE, package_name |-> name, package_subpath |-> subpath]

\* parse_specifier
ParseSpecifier(specifier) ==
  LET first == StrFind(specifier, "/")
      scoped == Len(specifier) > 0 /\ specifier[1] = "@"
      separator_index ==
        IF scoped /\ first.some
        THEN StrFind(Slice(specifier, first.index + 1, Len(specifier)), "/")
        ELSE first
      valid_so_far == Len(specifier) > 0 /\ (scoped => first.some)
      package_name ==
        IF separator_index.some
        THEN Slice(specifier, 0, separator_index.index)
        ELSE specifier
      valid_package_name ==
        /\ valid_so_far
        /\ \A i \in 1..Len(package_name) : package_name[i] \notin {"%", "\\"}
  IN IF ~valid_package_name
     THEN ParsedNone
     ELSE ParsedSome(package_name,
            IF separator_index.some
            THEN <<".">> \o Slice(specifier, separator_index.index, Len(specifier))
            ELSE <<".">>)

\* serde_json::Value: a string, an object (its entries in iteration order,
\* each <<key, value>>), or another kind of value.
JsonString(s) == [type |-> "String", s |-> s, entries |-> <<>>]

JsonObject(entries) == [type |-> "Object", s |-> <<>>, entries |-> entries]

JsonNull == [type |-> "Null", s |-> <<>>, entries |-> <<>>]

\* Map::contains_key / Map::get
ContainsKey(entries, key) == \E i \in 1..Len(entries) : entries[i][1] = key

MapGet(entries, key) ==
  entries[CHOOSE i \in 1..Len(entries) : entries[i][1] = key][2]

\* exports_resolve returns None, Some((key, None)), Some((key, Some(rest))),
\* or does not return (todo!()).
NoMatch == [kind |-> "None", key |-> <<>>, subpath |-> [some |-> FALSE, s |-> <<>>]]

LiteralMatch(key) ==
  [kind |-> "Some", key |-> key, subpath |-> [some |-> FALSE, s |-> <<>>]]

PatternMatch(key, rest) ==
  [kind |-> "Some", key |-> key, subpath |-> [some |-> TRUE, s |-> rest]]

MatchPanic == [kind |-> "Panic", key |-> <<>>, subpath |-> [some |-> FALSE, s |-> <<>>]]

\* One iteration of "for key in map.keys()": best_match after the key.
BestMatchStep(best_match, key, subpath) ==
  LET pattern == StrFind(key, "*")
      pattern_index == pattern.index
      key_sub == Slice(key, 0, pattern_index)
      pattern_trailer == Slice(key, pattern_index + 1, Len(key))
  IN IF best_match.kind = "Panic" \/ ~pattern.some \/ ~StartsWith(subpath, key_sub)
     THEN best_match
     ELSE IF EndsWith(subpath, <<"/">>)
     THEN MatchPanic
     ELSE IF /\ Len(subpath) > Len(key)
             /\ EndsWith(subpath, pattern_trailer)
             /\ StrRFind(key, "*") = SomeIndex(pattern_index)
     THEN PatternMatch(key,
            Slice(subpath, pattern_index, Len(subpath) - Len(pattern_trailer)))
     ELSE best_match

RECURSIVE BestMatchFold(_, _, _)
BestMatchFold(best_match, entries, subpath) ==
  IF Len(entries) = 0 THEN best_match
  ELSE BestMatchFold(BestMatchStep(best_match, Head(entries)[1], subpath),
                     Tail(entries), subpath)

\* exports_resolve
ExportsResolve(entries, subpath) ==
  IF ContainsKey(entries, subpath)
  THEN LiteralMatch(subpath)
  ELSE BestMatchFold(NoMatch, entries, subpath)

\* conditions_resolve as it would be if it walked the object's keys in
\* their own order and took the first that is one of the conditions.
RECURSIVE ConditionsResolveByKeyOrder(_, _)
ConditionsResolveByKeyOrder(value, conditions) ==
  IF value.type = "String" THEN [kind |-> "Ok", s |-> value.s]
  ELSE IF value.type # "Object" \/ Len(value.entries) = 0
  THEN [kind |-> "Panic", s |-> <<>>]
  ELSE IF \E i \in 1..Len(conditions) : conditions[i] = Head(value.entries)[1]
  THEN IF Head(value.entries)[2].type = "String"
       THEN [kind |-> "Ok", s |-> Head(value.entries)[2].s]
       ELSE [kind |-> "Panic", s |-> <<>>]
  ELSE ConditionsResolveByKeyOrder(JsonObject(Tail(value.entries)), conditions)

\* conditions_resolve: the string, or the string under the first condition
\* of the list that is a key of the object; todo!() otherwise.
RECURSIVE ConditionsResolve(_, _)
ConditionsResolve(value, conditions) ==
  IF value.type = "String" THEN [kind |-> "Ok", s |-> value.s]
  ELSE IF value.type # "Object" \/ Len(conditions) = 0
  THEN [kind |-> "Panic", s |-> <<>>]
  ELSE IF ContainsKey(value.entries, Head(conditions))
  THEN IF MapGet(value.entries, Head(conditions)).type = "String"
       THEN [kind |-> "Ok", s |-> MapGet(value.entries, Head(conditions)).s]
       ELSE [kind |-> "Panic", s |-> <<>>]
  ELSE ConditionsResolve(value, Tail(conditions))

\* resolve_package_target_string
ResolvePackageTargetString(target, subpath) ==
  IF subpath.some THEN Replace(target, "*", subpath.s) ELSE target

NoJson == [some |-> FALSE, value |-> JsonNull]

SomeJson(value) == [some |-> TRUE, value |-> value]

\* What npm_resolver and PackageJson::load give for an installed package:
\* its folder, whether package.json exists, and its exports_map and main.
Package(module_dir, package_json, exports_map, main) ==
  [module_dir |-> module_dir, package_json |-> package_json,
   exports_map |-> exports_map, main |-> main]

\* resolve_new's branch for a bare specifier, from the loaded package on.
ResolveInPackage(files, package, package_subpath, specifier, conditions) ==
  LET module_dir == package.module_dir
  IN IF ~package.package_json
     THEN ResolveErr("NotFound", specifier)
     ELSE IF package.exports_map.some
     THEN LET map == package.exports_map.value.entries
              found == ExportsResolve(map, package_subpath)
          IN IF found.kind # "Some"
             THEN ResolvePanic("todo")
             ELSE LET s == ConditionsResolve(MapGet(map, found.key), conditions)
                  IN IF s.kind = "Panic"
                     THEN ResolvePanic("todo")
                     ELSE ResolveOk(Clean(PathJoin(module_dir,
                            ResolvePackageTargetString(s.s, found.subpath))))
     ELSE IF package_subpath # <<".">>
     THEN LET d == PathJoin(module_dir, package_subpath)
          IN IF IsDir(files, d)
             THEN ResolveOk(Clean(Append(d, <<"i", "n", "d", "e", "x", ".", "j", "s">>)))
             ELSE FileExtensionProbe(files, d)
     ELSE IF package.main.some
     THEN ResolveOk(Clean(PathJoin(module_dir, package.main.value.s)))
     ELSE ResolveOk(Clean(Append(module_dir, <<"i", "n", "d", "e", "x", ".", "j", "s">>)))

\* resolve_new; packages maps the names npm_resolver can resolve from the
\* referrer to their packages.
ResolveNew(specifier, referrer_path, conditions, files, packages) ==
  IF StartsWith(specifier, <<"/">>)
  THEN ResolvePanic("todo")
  ELSE IF StartsWith(specifier, <<".", "/">>) \/ StartsWith(specifier, <<".", ".", "/">>)
  THEN IF Len(referrer_path) = 0
       THEN ResolvePanic("todo")
       ELSE FileExtensionProbe(files, PathJoin(Parent(referrer_path), specifier))
  ELSE LET parsed == ParseSpecifier(specifier)
       IN IF ~parsed.some
          THEN ResolvePanic("unwrap")
          ELSE IF parsed.package_name \notin DOMAIN packages
          THEN ResolveErr("PackageNotFound", parsed.package_name)
          ELSE ResolveInPackage(files, packages[parsed.package_name],
                                parsed.package_subpath, specifier, conditions)

\* The condition list the callers of resolve_new pass.
Conditions == <<<<"d", "e", "n", "o">>, <<"r", "e", "q", "u", "i", "r", "e">>, <<"d", "e", "f", "a", "u", "l", "t">>>>

\* Files that may exist beside the referrers /pkg/b.js and /pkg/lib/c.js.
ProbedFiles ==
  {<<<<"p", "k", "g">>, <<"a">>>>, <<<<"p", "k", "g">>, <<"a", ".", "j", "s">>>>, <<<<"p", "k", "g">>, <<"a", ".", "m", "i", "n">>>>,
   <<<<"p", "k", "g">>, <<"a", ".", "m", "i", "n", ".", "j", "s">>>>}

ReferrerPaths == {<<<<"p", "k", "g">>, <<"b", ".", "j", "s">>>>, <<<<"p", "k", "g">>, <<"l", "i", "b">>, <<"c", ".", "j", "s">>>>}

RelativeSpecifiers == {<<".", "/", "a">>, <<".", "/", "a", ".", "m", "i", "n">>, <<".", ".", "/", "a">>, <<".", ".", "/", "a", ".", "m", "i", "n">>}

\* The exports maps of the installed packages, each in the iteration order
\* of its keys.
ExportsMaps ==
  {<<<<<<".", "/", "f", "e", "a", "t", "/", "*">>, JsonObject(<<<<<<"r", "e", "q", "u", "i", "r", "e">>, JsonString(<<".", "/", "s", "r", "c", "/", "f", "e", "a", "t", "/", "*", ".", "j", "s">>)>>>>)>>>>,
   <<<<<<".", "/", "f", "e", "a", "t", "/", "*">>, JsonString(<<".", "/", "a", "/", "*", ".", "j", "s">>)>>,
     <<<<".", "/", "f", "e", "a", "t", "/", "x", "/", "*">>, JsonString(<<".", "/", "b", "/", "*", ".", "j", "s">>)>>>>,
   <<<<<<".", "/", "f", "e", "a", "t", "/", "x", "/", "*">>, JsonString(<<".", "/", "b", "/", "*", ".", "j", "s">>)>>,
     <<<<".", "/", "f", "e", "a", "t", "/", "*">>, JsonString(<<".", "/", "a", "/", "*", ".", "j", "s">>)>>>>,
   <<<<<<".", "/", "f", "/", "*", ".", "j", "s">>, JsonString(<<".", "/", "s", "/", "*", ".", "j", "s">>)>>,
     <<<<".", "/", "f", "/", "*", ".", "d", ".", "j", "s">>, JsonString(<<".", "/", "d", "/", "*", ".", "j", "s">>)>>>>,
   <<<<<<".", "/", "f", "/", "*", ".", "d", ".", "j", "s">>, JsonString(<<".", "/", "d", "/", "*", ".", "j", "s">>)>>,
     <<<<".", "/", "f", "/", "*", ".", "j", "s">>, JsonString(<<".", "/", "s", "/", "*", ".", "j", "s">>)>>>>,
   <<<<<<".">>, JsonString(<<".", "/", "m", "a", "i", "n", ".", "j", "s">>)>>,
     <<<<".", "/", "f", "e", "a", "t", "/", "*">>, JsonString(<<".", "/", "a", "/", "*", "/", ".", ".", "/", "*", ".", "j", "s">>)>>>>}

\* The packages as installed with one of the exports maps, or without one.
PackagesWith(exports_map) ==
  [n \in {<<"p", "k", "g">>, <<"@", "s", "c", "o", "p", "e", "/", "p", "k", "g">>} |->
     Package(<<<<"n", "m">>>> \o Split(n, "/"), TRUE, exports_map, SomeJson(JsonString(<<".", "/", "l", "i", "b", "/", "m", "a", "i", "n", ".", "j", "s">>)))]

PackageSets ==
  {PackagesWith(SomeJson(JsonObject(m))) : m \in ExportsMaps} \cup {PackagesWith(NoJson)}

BareSpecifiers ==
  {<<"p", "k", "g">>, <<"p", "k", "g", "/", "f", "e", "a", "t", "/", "x">>, <<"p", "k", "g", "/", "f", "e", "a", "t", "/", "x", "y">>, <<"p", "k", "g", "/", "f", "e", "a", "t", "/", "x", "/", "y">>, <<"p", "k", "g", "/", "f", "/", "x", "y", ".", "d", ".", "j", "s">>,
   <<"@", "s", "c", "o", "p", "e", "/", "p", "k", "g">>, <<"@", "s", "c", "o", "p", "e", "/", "p", "k", "g", "/", "f", "e", "a", "t", "/", "x">>, <<"@", "s", "c", "o", "p", "e", "/", "p", "k", "g", "/", "f", "e", "a", "t", "/", "x", "y">>,
   <<"n", "a", "m", "e">>, <<"n", "a", "m", "e", "/", "a", "/", "b">>, <<"@", "s", "c", "o", "p", "e", "/", "n", "a", "m", "e">>, <<"@", "s", "c", "o", "p", "e", "/", "n", "a", "m", "e", "/", "a", "/", "b">>,
   <<>>, <<"@", "s", "c", "o", "p", "e">>, <<"p", "%", "g">>, <<"p", "\\", "g", "/", "a">>, <<"@", "s", "%", "/", "n">>}

Subpaths ==
  {<<".">>, <<".", "/", "f", "e", "a", "t", "/", "x">>, <<".", "/", "f", "e", "a", "t", "/", "x", "y">>, <<".", "/", "f", "e", "a", "t", "/", "x", "/", "y">>, <<".", "/", "f", "e", "a", "t", "/", "x", "/", "y", "z">>, <<".", "/", "f", "/", "x", "y", ".", "d", ".", "j", "s">>,
   <<".", "/", "f", "/", "x", "y", ".", "j", "s">>, <<".", "/", "o", "t", "h", "e", "r">>}

\* Exports targets: a string, conditions objects in both orders of their
\* keys, objects no condition of the callers matches, nested conditions
\* objects and a value that is neither a string nor an object.
ConditionValues ==
  {JsonString(<<".", "/", "a", ".", "j", "s">>),
   JsonObject(<<<<<<"r", "e", "q", "u", "i", "r", "e">>, JsonString(<<"a">>)>>, <<<<"d", "e", "f", "a", "u", "l", "t">>, JsonString(<<"b">>)>>>>),
   JsonObject(<<<<<<"d", "e", "f", "a", "u", "l", "t">>, JsonString(<<"b">>)>>, <<<<"r", "e", "q", "u", "i", "r", "e">>, JsonString(<<"a">>)>>>>),
   JsonObject(<<<<<<"i", "m", "p", "o", "r", "t">>, JsonString(<<"i">>)>>, <<<<"d", "e", "f", "a", "u", "l", "t">>, JsonString(<<"b">>)>>,
                <<<<"d", "e", "n", "o">>, JsonString(<<"d">>)>>>>),
   JsonObject(<<<<<<"i", "m", "p", "o", "r", "t">>, JsonString(<<"i">>)>>>>),
   JsonObject(<<>>),
   JsonObject(<<<<<<"r", "e", "q", "u", "i", "r", "e">>, JsonObject(<<<<<<"d", "e", "f", "a", "u", "l", "t">>, JsonString(<<"n">>)>>>>)>>,
                <<<<"d", "e", "f", "a", "u", "l", "t">>, JsonString(<<"b">>)>>>>),
   JsonObject(<<<<<<"d", "e", "f", "a", "u", "l", "t">>, JsonString(<<"b">>)>>,
                <<<<"r", "e", "q", "u", "i", "r", "e">>, JsonObject(<<<<<<"i", "m", "p", "o", "r", "t">>, JsonString(<<"i">>)>>>>)>>>>),
   JsonNull}

\* Condition lists a caller may supply.
ConditionLists ==
  {Conditions, <<<<"d", "e", "f", "a", "u", "l", "t">>, <<"r", "e", "q", "u", "i", "r", "e">>>>, <<<<"i", "m", "p", "o", "r", "t">>, <<"d", "e", "f", "a", "u", "l", "t">>>>, <<<<"n", "o", "d", "e">>>>}

\* Specifiers that start with '/'.
AbsoluteSpecifiers == {<<"/", "a">>, <<"/", "p", "k", "g", "/", "a", ".", "j", "s">>, <<"/">>}

\* The installed packages without an exports map: package.json present
\* with a main, present without one, or absent.
PackagesWithout(package_json, main) ==
  [n \in {<<"p", "k", "g">>, <<"@", "s", "c", "o", "p", "e", "/", "p", "k", "g">>} |->
     Package(<<<<"n", "m">>>> \o Split(n, "/"), package_json, NoJson, main)]

OldSchoolPackages ==
  {PackagesWithout(TRUE, SomeJson(JsonString(<<".", "/", "l", "i", "b", "/", "m", "a", "i", "n", ".", "j", "s">>))),
   PackagesWithout(TRUE, NoJson),
   PackagesWithout(FALSE, NoJson)}

\* Files that may exist in the package folders; a path is not a file and a
\* directory at once.
PackageFiles ==
  {<<<<"n", "m">>, <<"p", "k", "g">>, <<"f", "e", "a", "t">>, <<"x">>>>, <<<<"n", "m">>, <<"p", "k", "g">>, <<"f", "e", "a", "t">>, <<"x", ".", "j", "s">>>>,
   <<<<"n", "m">>, <<"p", "k", "g">>, <<"f", "e", "a", "t">>, <<"x">>, <<"i", "n", "d", "e", "x", ".", "j", "s">>>>, <<<<"n", "m">>, <<"p", "k", "g">>, <<"f", "e", "a", "t", ".", "j", "s">>>>,
   <<<<"n", "m">>, <<"p", "k", "g">>, <<"f", "e", "a", "t">>, <<"x", ".", "m", "i", "n", ".", "j", "s">>>>,
   <<<<"n", "m">>, <<"@", "s", "c", "o", "p", "e">>, <<"p", "k", "g">>, <<"f", "e", "a", "t">>, <<"x", ".", "j", "s">>>>}

FileSystems ==
  {fs \in SUBSET PackageFiles :
     \A f \in fs, g \in fs : ~(Len(f) < Len(g) /\ SubSeq(g, 1, Len(f)) = f)}

OldSchoolSpecifiers ==
  {<<"p", "k", "g">>, <<"p", "k", "g", "/", "f", "e", "a", "t", "/", "x">>, <<"p", "k", "g", "/", "f", "e", "a", "t">>, <<"p", "k", "g", "/", "f", "e", "a", "t", "/", "x", ".", "m", "i", "n">>, <<"p", "k", "g", "/", "o", "t", "h", "e", "r">>,
   <<"@", "s", "c", "o", "p", "e", "/", "p", "k", "g">>, <<"@", "s", "c", "o", "p", "e", "/", "p", "k", "g", "/", "f", "e", "a", "t", "/", "x">>}

NodeResolveInputs ==
  {[op |-> "resolve_new", specifier |-> s, referrer |-> r, files |-> f,
    packages |-> PackagesWith(NoJson)] :
     s \in RelativeSpecifiers, r \in ReferrerPaths, f \in SUBSET ProbedFiles}
  \cup
  {[op |-> "resolve_new", specifier |-> s, referrer |-> <<<<"p", "k", "g">>, <<"b", ".", "j", "s">>>>,
    files |-> {}, packages |-> p] : s \in BareSpecifiers, p \in PackageSets}
  \cup
  {[op |-> "resolve_new", specifier |-> s, referrer |-> r, files |-> f,
    packages |-> PackagesWith(NoJson)] :
     s \in AbsoluteSpecifiers, r \in ReferrerPaths,
     f \in {{}, {<<<<"a">>>>, <<<<"p", "k", "g">>, <<"a", ".", "j", "s">>>>}}}
  \cup
  {[op |-> "resolve_new", specifier |-> s, referrer |-> <<<<"p", "k", "g">>, <<"b", ".", "j", "s">>>>,
    files |-> f, packages |-> p] :
     s \in OldSchoolSpecifiers, f \in FileSystems, p \in OldSchoolPackages}
  \cup {[op |-> "parse_specifier", specifier |-> s] : s \in BareSpecifiers}
  \cup {[op |-> "exports_resolve", map |-> m, subpath |-> s] :
          m \in ExportsMaps, s \in Subpaths}
  \cup {[op |-> "conditions_resolve", value |-> v, conditions |-> c] :
          v \in ConditionValues, c \in ConditionLists}

InitNodeResolve == InitProgram /\ input \in NodeResolveInputs /\ output = NoOutput

\* One call resolve_new(specifier, referrer, conditions, npm_resolver).
CallResolveNew ==
  /\ input.op = "resolve_new"
  /\ output = NoOutput
  /\ output' = ResolveNew(input.specifier, input.referrer, Conditions,
                          input.files, input.packages)
  /\ UNCHANGED <<input, rvars, cvars, avars, tvars>>

\* One call parse_specifier(specifier).
CallParseSpecifier ==
  /\ input.op = "parse_specifier"
  /\ output = NoOutput
  /\ output' = [kind |-> "returned", parsed |-> ParseSpecifier(input.specifier)]
  /\ UNCHANGED <<input, rvars, cvars, avars, tvars>>

\* One call exports_resolve(map, subpath).
CallExportsResolve ==
  /\ input.op = "exports_resolve"
  /\ output = NoOutput
  /\ output' = [kind |-> "returned", found |-> ExportsResolve(input.map, input.subpath)]
  /\ UNCHANGED <<input, rvars, cvars, avars, tvars>>

\* One call conditions_resolve(value, conditions).
CallConditionsResolve ==
  /\ input.op = "conditions_resolve"
  /\ output = NoOutput
  /\ output' = [kind |-> "returned",
                resolved |-> ConditionsResolve(input.value, input.conditions)]
  /\ UNCHANGED <<input, rvars, cvars, avars, tvars>>

NextNodeResolve ==
  \/ CallResolveNew
  \/ CallParseSpecifier
  \/ CallExportsResolve
  \/ CallConditionsResolve

\* resolve_new, parse_specifier and exports_resolve applied to specifiers,
\* file systems and installed packages.
SpecNodeResolve == InitNodeResolve /\ [][NextNodeResolve]_vars

\* The path with ".js" appended to its whole file name.
AppendJs(p) == [p EXCEPT ![Len(p)] = @ \o <<".", "j", "s">>]

IsRelative(specifier) ==
  StartsWith(specifier, <<".", "/">>) \/ StartsWith(specifier, <<".", ".", "/">>)

\* C17: for a relative specifier and p the referrer's parent joined with
\* it, resolve_new returns p when p exists, else p with ".js" appended to
\* its whole file name when that exists, else a NotFound error (paths
\* compared after lexical cleaning).
C17_RelativeProbe ==
  (input.op = "resolve_new" /\ IsRelative(input.specifier) /\ output # NoOutput) =>
    LET p == PathJoin(Parent(input.referrer), input.specifier)
    IN IF PathExists(input.files, p)
       THEN output.kind = "Ok" /\ Clean(output.path) = Clean(p)
       ELSE IF PathExists(input.files, AppendJs(p))
       THEN output.kind = "Ok" /\ Clean(output.path) = Clean(AppendJs(p))
       ELSE output.kind = "Err" /\ output.error = "NotFound"

\* The package name and subpath of a bare specifier as npm defines them:
\* the name is the first segment, or the first two for a scoped specifier.
NameSegments(specifier) ==
  IF Len(specifier) > 0 /\ specifier[1] = "@" THEN 2 ELSE 1

ExpectedName(specifier) ==
  Join(SubSeq(Split(specifier, "/"), 1, NameSegments(specifier)), "/")

ExpectedSubpath(specifier) ==
  LET parts == Split(specifier, "/")
      n == NameSegments(specifier)
  IN IF Len(parts) <= n
     THEN <<".">>
     ELSE <<".", "/">> \o Join(SubSeq(parts, n + 1, Len(parts)), "/")

InvalidPackageName(specifier) ==
  \/ Len(specifier) = 0
  \/ Len(Split(specifier, "/")) < NameSegments(specifier)
  \/ \E i \in 1..Len(ExpectedName(specifier)) :
       ExpectedName(specifier)[i] \in {"%", "\\"}

\* C18: parse_specifier yields the package name and a subpath that starts
\* with '.', "." for the package itself and "./rest" otherwise, for scoped
\* and unscoped specifiers; and for an empty specifier, a scoped one without
\* a slash or a name with '%' or a backslash, resolve_new returns an error
\* to its caller.
C18_ParseSpecifier ==
  /\ (input.op = "parse_specifier" /\ output # NoOutput) =>
       IF InvalidPackageName(input.specifier)
       THEN ~output.parsed.some
       ELSE output.parsed =
              ParsedSome(ExpectedName(input.specifier), ExpectedSubpath(input.specifier))
  /\ (/\ input.op = "resolve_new" /\ output # NoOutput
      /\ ~IsRelative(input.specifier) /\ ~StartsWith(input.specifier, <<"/">>)
      /\ InvalidPackageName(input.specifier))
       => output.kind = "Err"

\* key is prefix + "*" + suffix with a single '*', and subpath is
\* prefix + m + suffix with m not empty.
PatternKeyMatches(key, subpath) ==
  /\ StrFind(key, "*").some
  /\ StrFind(key, "*") = StrRFind(key, "*")
  /\ LET star == StrFind(key, "*").index
         prefix == Slice(key, 0, star)
         suffix == Slice(key, star + 1, Len(key))
     IN /\ StartsWith(subpath, prefix)
        /\ EndsWith(subpath, suffix)
        /\ Len(subpath) >= Len(prefix) + Len(suffix) + 1

\* The m of a matching key.
StarPart(key, subpath) ==
  LET star == StrFind(key, "*").index
  IN Slice(subpath, star, Len(subpath) - (Len(key) - star - 1))

\* The pattern keys of the exports map that match the subpath.
MatchingKeys(entries, subpath) ==
  {entries[i][1] : i \in {j \in 1..Len(entries) :
                            PatternKeyMatches(entries[j][1], subpath)}}

\* C19: when the subpath of a bare specifier is not a literal key of the
\* package's exports and one pattern key matches it with a non-empty m (one
\* character included), resolve_new returns the package folder joined with
\* the key's target in which '*' is replaced by m, lexically cleaned.
C19_PatternSubstitution ==
  (/\ input.op = "resolve_new" /\ output # NoOutput
   /\ ~IsRelative(input.specifier) /\ ~StartsWith(input.specifier, <<"/">>)
   /\ ~InvalidPackageName(input.specifier)
   /\ ExpectedName(input.specifier) \in DOMAIN input.packages) =>
    LET package == input.packages[ExpectedName(input.specifier)]
        subpath == ExpectedSubpath(input.specifier)
        map == package.exports_map.value.entries
        keys == MatchingKeys(map, subpath)
    IN (/\ package.exports_map.some
        /\ ~ContainsKey(map, subpath)
        /\ Cardinality(keys) = 1)
       => LET key == CHOOSE k \in keys : TRUE
              target == ConditionsResolve(MapGet(map, key), Conditions).s
          IN output = ResolveOk(Clean(PathJoin(package.module_dir,
                        Replace(target, "*", StarPart(key, subpath)))))

PrefixLen(key) == StrFind(key, "*").index

SuffixLen(key) == Len(key) - StrFind(key, "*").index - 1

\* The most specific of the matching keys: the longest prefix before '*',
\* and among those the longest suffix.
MostSpecific(keys) ==
  CHOOSE k \in keys :
    \A other \in keys :
      \/ PrefixLen(k) > PrefixLen(other)
      \/ PrefixLen(k) = PrefixLen(other) /\ SuffixLen(k) >= SuffixLen(other)

\* C20: when the subpath is not a literal key and pattern keys match it,
\* exports_resolve selects the matching key with the longest prefix, ties
\* broken by the longest suffix, whatever the order of the keys in the map.
C20_MostSpecificKey ==
  (/\ input.op = "exports_resolve" /\ output # NoOutput
   /\ ~ContainsKey(input.map, input.subpath)
   /\ MatchingKeys(input.map, input.subpath) # {})
  => /\ output.found.kind = "Some"
     /\ output.found.key = MostSpecific(MatchingKeys(input.map, input.subpath))

\* The value the object holds under the key, whatever the order of its keys.
ValueOf(entries, key) ==
  CHOOSE v \in {entries[i][2] : i \in 1..Len(entries)} :
    \E i \in 1..Len(entries) : entries[i] = <<key, v>>

\* The positions in the caller's list of the conditions that are keys.
MatchedConditions(entries, conditions) ==
  {i \in 1..Len(conditions) : ContainsKey(entries, conditions[i])}

\* The first condition of the caller's list that is a key of the object.
FirstCondition(entries, conditions) ==
  conditions[CHOOSE i \in MatchedConditions(entries, conditions) :
               \A j \in MatchedConditions(entries, conditions) : i <= j]

\* C21: conditions_resolve returns a string target as it is, and for a
\* conditions object the string held under the first condition of the
\* caller's list that is a key of the object, in whatever order the object
\* lists its keys.
C21_ConditionOrder ==
  (input.op = "conditions_resolve" /\ output # NoOutput)
  => LET value == input.value
         conditions == input.conditions
     IN /\ value.type = "String"
           => output.resolved = [kind |-> "Ok", s |-> value.s]
        /\ (/\ value.type = "Object"
            /\ MatchedConditions(value.entries, conditions) # {}
            /\ ValueOf(value.entries,
                       FirstCondition(value.entries, conditions)).type = "String")
           => output.resolved =
                [kind |-> "Ok",
                 s |-> ValueOf(value.entries,
                               FirstCondition(value.entries, conditions)).s]

\* conditions ["deno", "require", "default"] over {default: "b", require:
\* "a"}, whose first key is not the first matching condition, gave "a".
C21_Witness ==
  /\ input.op = "conditions_resolve"
  /\ output # NoOutput
  /\ input.conditions = Conditions
  /\ input.value =
       JsonObject(<<<<<<"d", "e", "f", "a", "u", "l", "t">>, JsonString(<<"b">>)>>, <<<<"r", "e", "q", "u", "i", "r", "e">>, JsonString(<<"a">>)>>>>)
  /\ output.resolved = [kind |-> "Ok", s |-> <<"a">>]

\* The target a conditions value stands for when nested objects are
\* followed with the same condition list: the string, or no target when at
\* some level no condition is a key.
RECURSIVE ExpectedTarget(_, _)
ExpectedTarget(value, conditions) ==
  IF value.type = "String" THEN [kind |-> "Ok", s |-> value.s]
  ELSE IF value.type # "Object" \/ MatchedConditions(value.entries, conditions) = {}
  THEN [kind |-> "UnresolvedExport", s |-> <<>>]
  ELSE ExpectedTarget(ValueOf(value.entries, FirstCondition(value.entries, conditions)),
                      conditions)

\* The call is resolve_new for a well-formed bare specifier of an installed
\* package whose package.json has an exports map.
ResolvesThroughExports ==
  /\ input.op = "resolve_new"
  /\ ~StartsWith(input.specifier, <<"/">>)
  /\ ~IsRelative(input.specifier)
  /\ ParseSpecifier(input.specifier).some
  /\ ParseSpecifier(input.specifier).package_name \in DOMAIN input.packages
  /\ input.packages[ParseSpecifier(input.specifier).package_name].package_json
  /\ input.packages[ParseSpecifier(input.specifier).package_name].exports_map.some

\* C22: exports resolution always returns to its caller: a conditions value
\* resolves to the string reached by following nested objects with the
\* same condition list, or to an UnresolvedExport error when no condition
\* matches at some level; and resolve_new through an exports map returns a
\* path or an UnresolvedExport error, never aborting.
C22_ExportsTotal ==
  /\ (input.op = "conditions_resolve" /\ output # NoOutput)
     => output.resolved = ExpectedTarget(input.value, input.conditions)
  /\ (ResolvesThroughExports /\ output # NoOutput)
     => \/ output.kind = "Ok"
        \/ output.kind = "Err" /\ output.error = "UnresolvedExport"

\* C23: resolve_new of a specifier starting with '/' returns an error
\* saying absolute specifiers are unsupported, whatever the referrer.
C23_AbsoluteIsError ==
  (/\ input.op = "resolve_new"
   /\ StartsWith(input.specifier, <<"/">>)
   /\ output # NoOutput)
  => output.kind = "Err" /\ output.error = "UnsupportedAbsoluteSpecifier"

\* The package a bare specifier names, by its npm name.
TargetPackage == input.packages[ExpectedName(input.specifier)]

\* The call is resolve_new for a well-formed bare specifier of an installed
\* package that has a package.json.
ResolvesBare ==
  /\ input.op = "resolve_new"
  /\ ~StartsWith(input.specifier, <<"/">>)
  /\ ~IsRelative(input.specifier)
  /\ ~InvalidPackageName(input.specifier)
  /\ ExpectedName(input.specifier) \in DOMAIN input.packages
  /\ TargetPackage.package_json

\* What the fallbacks give for the package folder, the subpath and main.
OldSchool(files, package, subpath) ==
  IF subpath # <<".">>
  THEN IF IsDir(files, PathJoin(package.module_dir, subpath))
       THEN ResolveOk(Clean(PathJoin(package.module_dir, subpath)) \o <<<<"i", "n", "d", "e", "x", ".", "j", "s">>>>)
       ELSE FileExtensionProbe(files, PathJoin(package.module_dir, subpath))
  ELSE IF package.main.some
  THEN ResolveOk(Clean(PathJoin(package.module_dir, package.main.value.s)))
  ELSE ResolveOk(package.module_dir \o <<<<"i", "n", "d", "e", "x", ".", "j", "s">>>>)

\* C24: without an exports field a bare specifier resolves to
\* <pkg>/<subpath>/index.js when <pkg>/<subpath> is a directory, else to
\* the file-extension probe of <pkg>/<subpath>, and for subpath "." to
\* <pkg>/<main>, or <pkg>/index.js without a main; with an exports field
\* that does not resolve the subpath no such path is returned.
C24_OldSchoolFallbacks ==
  (ResolvesBare /\ output # NoOutput)
  => IF ~TargetPackage.exports_map.some
     THEN output = OldSchool(input.files, TargetPackage, ExpectedSubpath(input.specifier))
     ELSE ExportsResolve(TargetPackage.exports_map.value.entries,
                         ExpectedSubpath(input.specifier)).kind # "Some"
          => output.kind # "Ok"

(***************************************************************************)
(* ext/node/analyze.rs: NodeCodeTranslator.  Export names, error messages  *)
(* and source lines are sequences of characters; a source is the sequence  *)
(* of its lines.                                                           *)
(***************************************************************************)
\* The printable ASCII characters in the order of their codes, from ' ' on
\* (the grave accent left out: no name or message here holds one).
AsciiOrder ==
  <<" ", "!", "\"", "#", "$", "%", "&", "'", "(", ")", "*", "+", ",", "-",
    ".", "/", "0", "1", "2", "3", "4", "5", "6", "7", "8", "9", ":", ";",
    "<", "=", ">", "?", "@", "A", "B", "C", "D", "E", "F", "G", "H", "I",
    "J", "K", "L", "M", "N", "O", "P", "Q", "R", "S", "T", "U", "V", "W",
    "X", "Y", "Z", "[", "\\", "]", "^", "_", "a", "b", "c", "d", "e",
    "f", "g", "h", "i", "j", "k", "l", "m", "n", "o", "p", "q", "r", "s",
    "t", "u", "v", "w", "x", "y", "z", "{", "|", "}", "~">>

\* The place of the character in that order.
CharCode(ch) == CHOOSE i \in 1..Len(AsciiOrder) : AsciiOrder[i] = ch

\* Ord for str: s < t, comparing byte by byte.
RECURSIVE StrLess(_, _)
StrLess(s, t) ==
  IF Len(t) = 0 THEN FALSE
  ELSE IF Len(s) = 0 THEN TRUE
  ELSE IF Head(s) # Head(t) THEN CharCode(Head(s)) < CharCode(Head(t))
  ELSE StrLess(Tail(s), Tail(t))

\* char::is_ascii_alphabetic
AsciiAlphabetic ==
  {"A", "B", "C", "D", "E", "F", "G", "H", "I", "J", "K", "L", "M", "N", "O",
   "P", "Q", "R", "S", "T", "U", "V", "W", "X", "Y", "Z", "a", "b", "c", "d",
   "e", "f", "g", "h", "i", "j", "k", "l", "m", "n", "o", "p", "q", "r", "s",
   "t", "u", "v", "w", "x", "y", "z"}

\* char::is_ascii_alphanumeric
AsciiAlphanumeric ==
  AsciiAlphabetic \cup {"0", "1", "2", "3", "4", "5", "6", "7", "8", "9"}

\* "{}" of a usize
RECURSIVE UsizeToString(_)
UsizeToString(n) ==
  IF n < 10 THEN <<ToString(n)>>
  ELSE UsizeToString(n \div 10) \o <<ToString(n % 10)>>

RESERVED_WORDS ==
  {<<"a", "b", "s", "t", "r", "a", "c", "t">>, <<"a", "r", "g", "u", "m", "e", "n", "t", "s">>, <<"a", "s", "y", "n", "c">>, <<"a", "w", "a", "i", "t">>, <<"b", "o", "o", "l", "e", "a", "n">>, <<"b", "r", "e", "a", "k">>,
   <<"b", "y", "t", "e">>, <<"c", "a", "s", "e">>, <<"c", "a", "t", "c", "h">>, <<"c", "h", "a", "r">>, <<"c", "l", "a", "s", "s">>, <<"c", "o", "n", "s", "t">>, <<"c", "o", "n", "t", "i", "n", "u", "e">>,
   <<"d", "e", "b", "u", "g", "g", "e", "r">>, <<"d", "e", "f", "a", "u", "l", "t">>, <<"d", "e", "l", "e", "t", "e">>, <<"d", "o">>, <<"d", "o", "u", "b", "l", "e">>, <<"e", "l", "s", "e">>, <<"e", "n", "u", "m">>,
   <<"e", "v", "a", "l">>, <<"e", "x", "p", "o", "r", "t">>, <<"e", "x", "t", "e", "n", "d", "s">>, <<"f", "a", "l", "s", "e">>, <<"f", "i", "n", "a", "l">>, <<"f", "i", "n", "a", "l", "l", "y">>, <<"f", "l", "o", "a", "t">>,
   <<"f", "o", "r">>, <<"f", "u", "n", "c", "t", "i", "o", "n">>, <<"g", "e", "t">>, <<"g", "o", "t", "o">>, <<"i", "f">>, <<"i", "m", "p", "l", "e", "m", "e", "n", "t", "s">>, <<"i", "m", "p", "o", "r", "t">>,
   <<"i", "n">>, <<"i", "n", "s", "t", "a", "n", "c", "e", "o", "f">>, <<"i", "n", "t">>, <<"i", "n", "t", "e", "r", "f", "a", "c", "e">>, <<"l", "e", "t">>, <<"l", "o", "n", "g">>, <<"m", "o", "d">>,
   <<"n", "a", "t", "i", "v", "e">>, <<"n", "e", "w">>, <<"n", "u", "l", "l">>, <<"p", "a", "c", "k", "a", "g", "e">>, <<"p", "r", "i", "v", "a", "t", "e">>, <<"p", "r", "o", "t", "e", "c", "t", "e", "d">>,
   <<"p", "u", "b", "l", "i", "c">>, <<"r", "e", "t", "u", "r", "n">>, <<"s", "e", "t">>, <<"s", "h", "o", "r", "t">>, <<"s", "t", "a", "t", "i", "c">>, <<"s", "u", "p", "e", "r">>, <<"s", "w", "i", "t", "c", "h">>,
   <<"s", "y", "n", "c", "h", "r", "o", "n", "i", "z", "e", "d">>, <<"t", "h", "i", "s">>, <<"t", "h", "r", "o", "w">>, <<"t", "h", "r", "o", "w", "s">>, <<"t", "r", "a", "n", "s", "i", "e", "n", "t">>, <<"t", "r", "u", "e">>,
   <<"t", "r", "y">>, <<"t", "y", "p", "e", "o", "f">>, <<"v", "a", "r">>, <<"v", "o", "i", "d">>, <<"v", "o", "l", "a", "t", "i", "l", "e">>, <<"w", "h", "i", "l", "e">>, <<"w", "i", "t", "h">>,
   <<"y", "i", "e", "l", "d">>}

\* is_valid_var_decl
IsValidVarDecl(name) ==
  /\ Len(name) > 0
  /\ name[1] \in AsciiAlphabetic \cup {"_", "$"}
  /\ \A i \in 1..Len(name) : name[i] \in AsciiAlphanumeric \cup {"_", "$"}

\* escape_for_double_quote_string
EscapeForDoubleQuoteString(text) ==
  Replace(Replace(text, "\\", <<"\\", "\\">>), "\"", <<"\\", "\"">>)

\* add_export as it would be without the reserved words.
AddExportIgnoringReserved(source, name, initializer, temp_var_count) ==
  IF ~IsValidVarDecl(name)
  THEN [source |-> source \o
          <<<<"c", "o", "n", "s", "t", " ", "_", "_", "d", "e", "n", "o", "_", "e", "x", "p", "o", "r", "t", "_">> \o UsizeToString(temp_var_count + 1)
              \o <<"_", "_", " ", "=", " ">> \o initializer \o <<";">>,
            <<"e", "x", "p", "o", "r", "t", " ", "{", " ", "_", "_", "d", "e", "n", "o", "_", "e", "x", "p", "o", "r", "t", "_">> \o UsizeToString(temp_var_count + 1)
              \o <<"_", "_", " ", "a", "s", " ", "\"">> \o EscapeForDoubleQuoteString(name) \o <<"\"", " ", "}", ";">>>>,
        temp_var_count |-> temp_var_count + 1]
  ELSE [source |-> Append(source,
          <<"e", "x", "p", "o", "r", "t", " ", "c", "o", "n", "s", "t", " ">> \o name \o <<" ", "=", " ">> \o initializer \o <<";">>),
        temp_var_count |-> temp_var_count]

\* add_export as it would be if every export advanced the counter.
AddExportCountingAll(source, name, initializer, temp_var_count) ==
  IF name \in RESERVED_WORDS \/ ~IsValidVarDecl(name)
  THEN [source |-> source \o
          <<<<"c", "o", "n", "s", "t", " ", "_", "_", "d", "e", "n", "o", "_", "e", "x", "p", "o", "r", "t", "_">> \o UsizeToString(temp_var_count + 1)
              \o <<"_", "_", " ", "=", " ">> \o initializer \o <<";">>,
            <<"e", "x", "p", "o", "r", "t", " ", "{", " ", "_", "_", "d", "e", "n", "o", "_", "e", "x", "p", "o", "r", "t", "_">> \o UsizeToString(temp_var_count + 1)
              \o <<"_", "_", " ", "a", "s", " ", "\"">> \o EscapeForDoubleQuoteString(name) \o <<"\"", " ", "}", ";">>>>,
        temp_var_count |-> temp_var_count + 1]
  ELSE [source |-> Append(source,
          <<"e", "x", "p", "o", "r", "t", " ", "c", "o", "n", "s", "t", " ">> \o name \o <<" ", "=", " ">> \o initializer \o <<";">>),
        temp_var_count |-> temp_var_count + 1]

\* add_export: the source with the lines pushed, and the counter.
AddExport(source, name, initializer, temp_var_count) ==
  IF name \in RESERVED_WORDS \/ ~IsValidVarDecl(name)
  THEN [source |-> source \o
          <<<<"c", "o", "n", "s", "t", " ", "_", "_", "d", "e", "n", "o", "_", "e", "x", "p", "o", "r", "t", "_">> \o UsizeToString(temp_var_count + 1)
              \o <<"_", "_", " ", "=", " ">> \o initializer \o <<";">>,
            <<"e", "x", "p", "o", "r", "t", " ", "{", " ", "_", "_", "d", "e", "n", "o", "_", "e", "x", "p", "o", "r", "t", "_">> \o UsizeToString(temp_var_count + 1)
              \o <<"_", "_", " ", "a", "s", " ", "\"">> \o EscapeForDoubleQuoteString(name) \o <<"\"", " ", "}", ";">>>>,
        temp_var_count |-> temp_var_count + 1]
  ELSE [source |-> Append(source,
          <<"e", "x", "p", "o", "r", "t", " ", "c", "o", "n", "s", "t", " ">> \o name \o <<" ", "=", " ">> \o initializer \o <<";">>),
        temp_var_count |-> temp_var_count]

\* The entry module and the modules it may reach; a module's specifier is
\* written with its one-letter name.
EntryModule == "e"

TranslatorModules == {"e", "a", "b", "c"}

\* CjsAnalysis::Esm, CjsAnalysis::Cjs, and an Err of analyze_cjs.
Esm(source) ==
  [kind |-> "Esm", source |-> source, exports |-> <<>>, reexports |-> <<>>]

Cjs(exports, reexports) ==
  [kind |-> "Cjs", source |-> <<>>, exports |-> exports, reexports |-> reexports]

AnalyzeFails ==
  [kind |-> "Err", source |-> <<>>, exports |-> <<>>, reexports |-> <<>>]

\* node_resolver.resolve(reexport, referrer): the module the reexport
\* names, or an error when there is no such module.
NodeResolve(reexport, referrer) ==
  IF reexport \in TranslatorModules
  THEN [ok |-> TRUE, specifier |-> reexport]
  ELSE [ok |-> FALSE, specifier |-> ""]

\* The errors: of node_resolver.resolve, of analyze_cjs with the context
\* "Could not load", "Cannot require ES module", and of the analysis of
\* the entry.
ResolveError(reexport, referrer) ==
  [kind |-> "Resolve", reexport |-> reexport, specifier |-> "", referrer |-> referrer]

LoadError(reexport, specifier, referrer) ==
  [kind |-> "Load", reexport |-> reexport, specifier |-> specifier,
   referrer |-> referrer]

EsmError(specifier, referrer) ==
  [kind |-> "Esm", reexport |-> "", specifier |-> specifier, referrer |-> referrer]

EntryError(specifier) ==
  [kind |-> "Analyze", reexport |-> "", specifier |-> specifier, referrer |-> ""]

\* e.to_string()
ErrorToString(e) ==
  CASE e.kind = "Esm" ->
         <<"C", "a", "n", "n", "o", "t", " ", "r", "e", "q", "u", "i", "r", "e", " ", "E", "S", " ", "m", "o", "d", "u", "l", "e", " ", "'">> \o <<e.specifier>> \o <<"'", " ", "f", "r", "o", "m", " ", "'">>
           \o <<e.referrer>> \o <<"'">>
    [] e.kind = "Load" ->
         <<"C", "o", "u", "l", "d", " ", "n", "o", "t", " ", "l", "o", "a", "d", " ", "'">> \o <<e.reexport>> \o <<"'", " ", "(">> \o <<e.specifier>>
           \o <<")", " ", "r", "e", "f", "e", "r", "e", "n", "c", "e", "d", " ", "f", "r", "o", "m", " ">> \o <<e.referrer>>
    [] e.kind = "Resolve" ->
         <<"[", "E", "R", "R", "_", "M", "O", "D", "U", "L", "E", "_", "N", "O", "T", "_", "F", "O", "U", "N", "D", "]", " ", "C", "a", "n", "n", "o", "t", " ", "f", "i", "n", "d", " ", "m", "o", "d", "u", "l", "e", " ", "\"">> \o <<e.reexport>>
           \o <<"\"", " ", "i", "m", "p", "o", "r", "t", "e", "d", " ", "f", "r", "o", "m", " ", "\"">> \o <<e.referrer>> \o <<"\"">>
    [] OTHER -> <<"a", "n", "a", "l", "y", "z", "e", "_", "c", "j", "s", " ", "f", "a", "i", "l", "e", "d", " ", "f", "o", "r", " ">> \o <<e.specifier>>

\* What translate_cjs_to_esm returns.
NoError == [kind |-> "None", reexport |-> "", specifier |-> "", referrer |-> ""]

TranslatedOk(source) == [kind |-> "Ok", source |-> source, error |-> NoError]

TranslatedErr(error) == [kind |-> "Err", source |-> <<>>, error |-> error]

\* The elements of a Vec.
Range(s) == {s[i] : i \in 1..Len(s)}

\* The iteration as it would be without the set of handled specifiers.
HandleReexportUnchecked(st, referrer, reexport) ==
  LET found == NodeResolve(reexport, referrer)
      called == [st EXCEPT !.resolved = @ \cup {<<reexport, referrer>>}]
  IN IF ~found.ok
     THEN [called EXCEPT !.errors = Append(@, ResolveError(reexport, referrer))]
     ELSE [called EXCEPT
             !.handled = @ \cup {found.specifier},
             !.futures = @ \cup {[reexport |-> reexport,
                                  reexport_specifier |-> found.specifier,
                                  referrer |-> referrer]}]

\* One iteration of "for reexport in reexports" in handle_reexports, on
\* st = [handled, futures, errors, resolved].
HandleReexport(st, referrer, reexport) ==
  LET found == NodeResolve(reexport, referrer)
      called == [st EXCEPT !.resolved = @ \cup {<<reexport, referrer>>}]
  IN IF ~found.ok
     THEN [called EXCEPT !.errors = Append(@, ResolveError(reexport, referrer))]
     ELSE IF found.specifier \in st.handled
     THEN called
     ELSE [called EXCEPT
             !.handled = @ \cup {found.specifier},
             !.futures = @ \cup {[reexport |-> reexport,
                                  reexport_specifier |-> found.specifier,
                                  referrer |-> referrer]}]

\* handle_reexports(referrer, reexports, analyze_futures, errors)
RECURSIVE HandleReexports(_, _, _)
HandleReexports(st, referrer, reexports) ==
  IF Len(reexports) = 0 THEN st
  ELSE HandleReexports(HandleReexport(st, referrer, Head(reexports)),
                       referrer, Tail(reexports))

\* The iteration order of a BTreeSet<String>.
RECURSIVE SortNames(_)
SortNames(names) ==
  IF names = {} THEN <<>>
  ELSE LET least == CHOOSE n \in names : \A m \in names : ~StrLess(m, n)
       IN <<least>> \o SortNames(names \ {least})

\* errors.sort_by_cached_key(|e| e.to_string()); errors.remove(0): the sort
\* is stable, so the first pushed of the errors with the least text.
FirstSorted(errs) ==
  errs[CHOOSE i \in 1..Len(errs) :
         /\ \A j \in 1..Len(errs) :
              ~StrLess(ErrorToString(errs[j]), ErrorToString(errs[i]))
         /\ \A j \in 1..(i - 1) : ErrorToString(errs[j]) # ErrorToString(errs[i])]

\* The error surfaced, were the errors not sorted: the one pushed first.
FirstPushed(errs) == errs[1]

\* The error translate_cjs_to_esm surfaces.
SurfacedError(errs) == FirstSorted(errs)

\* The first element of the source.
Prelude ==
  <<<<"i", "m", "p", "o", "r", "t", " ", "{", "c", "r", "e", "a", "t", "e", "R", "e", "q", "u", "i", "r", "e", " ", "a", "s", " ", "_", "_", "i", "n", "t", "e", "r", "n", "a", "l", "C", "r", "e", "a", "t", "e", "R", "e", "q", "u", "i", "r", "e", "}", " ", "f", "r", "o", "m", " ", "\"", "n", "o", "d", "e", ":", "m", "o", "d", "u", "l", "e", "\"", ";">>,
    <<" ", " ", " ", " ", " ", " ", "c", "o", "n", "s", "t", " ", "r", "e", "q", "u", "i", "r", "e", " ", "=", " ", "_", "_", "i", "n", "t", "e", "r", "n", "a", "l", "C", "r", "e", "a", "t", "e", "R", "e", "q", "u", "i", "r", "e", "(", "i", "m", "p", "o", "r", "t", ".", "m", "e", "t", "a", ".", "u", "r", "l", ")", ";">>>>

\* entry_specifier.to_file_path() as text
FilePath(specifier) == <<"/", specifier, ".", "j", "s">>

\* "const mod = require(..)" with the path's backslashes and quotes escaped.
RequireLine(specifier) ==
  <<"c", "o", "n", "s", "t", " ", "m", "o", "d", " ", "=", " ", "r", "e", "q", "u", "i", "r", "e", "(", "\"">>
    \o Replace(Replace(Replace(FilePath(specifier), "\\", <<"\\", "\\">>), "'", <<"\\", "'">>),
               "\"", <<"\\", "\"">>)
    \o <<"\"", ")", ";">>

\* The initializer of an export: mod["<name>"].
Initializer(name) == <<"m", "o", "d", "[", "\"">> \o EscapeForDoubleQuoteString(name) \o <<"\"", "]">>

DefaultName == <<"d", "e", "f", "a", "u", "l", "t">>

\* The loop as it would be with "default" exported like any other name.
RECURSIVE AddExportsWithDefault(_, _, _)
AddExportsWithDefault(source, names, temp_var_count) ==
  IF Len(names) = 0 THEN [source |-> source, temp_var_count |-> temp_var_count]
  ELSE LET added == AddExport(source, Head(names), Initializer(Head(names)),
                              temp_var_count)
       IN AddExportsWithDefault(added.source, Tail(names), added.temp_var_count)

\* "for export in &all_exports": add_export for each name but "default".
RECURSIVE AddExports(_, _, _)
AddExports(source, names, temp_var_count) ==
  IF Len(names) = 0 THEN [source |-> source, temp_var_count |-> temp_var_count]
  ELSE IF Head(names) = DefaultName
  THEN AddExports(source, Tail(names), temp_var_count)
  ELSE LET added == AddExport(source, Head(names), Initializer(Head(names)),
                              temp_var_count)
       IN AddExports(added.source, Tail(names), added.temp_var_count)

ExportDefault == <<"e", "x", "p", "o", "r", "t", " ", "d", "e", "f", "a", "u", "l", "t", " ", "m", "o", "d", ";">>

\* The source translate_cjs_to_esm builds once the exports are collected.
EmitModule(specifier, exports) ==
  Append(AddExports(Append(Prelude, RequireLine(specifier)),
                    SortNames(exports), 0).source,
         ExportDefault)

\* The return for an entry analysed as Esm, were the source wrapped.
EntryEsmWrapped(source) == TranslatedOk(Prelude \o source)

\* The return for an entry analysed as Esm(source).
EntryEsm(source) == TranslatedOk(source)

\* The return after the expansion of the reexports.
Surface(specifier, exports, errs) ==
  IF Len(errs) # 0
  THEN TranslatedErr(SurfacedError(errs))
  ELSE TranslatedOk(EmitModule(specifier, exports))

\* translate_cjs_to_esm up to its first wait for an analysis of a reexport:
\* the entry is analysed; an Esm entry, a failed analysis or an entry
\* without reexports ends the call, and otherwise handle_reexports starts
\* the analyses of the entry's reexports.
TranslateCjsToEsm ==
  /\ input.op = "translate_cjs_to_esm"
  /\ translated = NotTranslated
  /\ Len(analysed) = 0
  /\ LET analysis == input.analyses[input.entry]
         st == HandleReexports([handled |-> {input.entry}, futures |-> {},
                                errors |-> <<>>, resolved |-> {}],
                               input.entry, analysis.reexports)
     IN /\ analysed' = <<input.entry>>
        /\ IF analysis.kind = "Err"
           THEN /\ translated' = TranslatedErr(EntryError(input.entry))
                /\ UNCHANGED <<handled_reexports, analyze_futures, all_exports,
                               errors, resolved>>
           ELSE IF analysis.kind = "Esm"
           THEN /\ translated' = EntryEsm(analysis.source)
                /\ UNCHANGED <<handled_reexports, analyze_futures, all_exports,
                               errors, resolved>>
           ELSE /\ all_exports' = Range(analysis.exports)
                /\ handled_reexports' = st.handled
                /\ analyze_futures' = st.futures
                /\ errors' = st.errors
                /\ resolved' = st.resolved
                /\ translated' =
                     IF st.futures = {}
                     THEN Surface(input.entry, Range(analysis.exports), st.errors)
                     ELSE NotTranslated
  /\ UNCHANGED <<firstResult, rvars, cvars, fvars, avars>>

\* analyze_futures.next() yields the analysis of f, whichever of the
\* started analyses that is, and the loop body handles it; when it was the
\* last one the call returns.
CompleteAnalysis(f) ==
  /\ translated = NotTranslated
  /\ f \in analyze_futures
  /\ LET analysis == input.analyses[f.reexport_specifier]
         before == [handled |-> handled_reexports,
                    futures |-> analyze_futures \ {f},
                    errors |-> errors, resolved |-> resolved]
         st == IF analysis.kind = "Err"
               THEN [before EXCEPT !.errors =
                       Append(@, LoadError(f.reexport, f.reexport_specifier,
                                           f.referrer))]
               ELSE IF analysis.kind = "Esm"
               THEN [before EXCEPT !.errors =
                       Append(@, EsmError(f.reexport_specifier, f.referrer))]
               ELSE HandleReexports(before, f.reexport_specifier,
                                    analysis.reexports)
         exports == IF analysis.kind = "Cjs"
                    THEN all_exports \cup (Range(analysis.exports) \ {DefaultName})
                    ELSE all_exports
     IN /\ analysed' = Append(analysed, f.reexport_specifier)
        /\ handled_reexports' = st.handled
        /\ analyze_futures' = st.futures
        /\ errors' = st.errors
        /\ resolved' = st.resolved
        /\ all_exports' = exports
        /\ translated' = IF st.futures = {}
                         THEN Surface(input.entry, exports, st.errors)
                         ELSE NotTranslated
  /\ UNCHANGED <<firstResult, rvars, cvars, fvars, avars>>

\* The caller keeps the result and translates the same entry once more.
TranslateAgain ==
  /\ translated # NotTranslated
  /\ firstResult = NotTranslated
  /\ firstResult' = translated
  /\ handled_reexports' = {}
  /\ analyze_futures' = {}
  /\ all_exports' = {}
  /\ errors' = <<>>
  /\ resolved' = {}
  /\ analysed' = <<>>
  /\ translated' = NotTranslated
  /\ UNCHANGED <<rvars, cvars, fvars, avars>>

\* One call add_export(source, name, initializer, temp_var_count).
CallAddExport ==
  /\ input.op = "add_export"
  /\ output = NoOutput
  /\ output' = [kind |-> "returned",
                added |-> AddExport(input.source, input.name, input.initializer,
                                    input.temp_var_count)]
  /\ UNCHANGED <<input, rvars, cvars, avars, tvars>>

\* The analyses the analyzer may give for the entry and for a, b and c.
EsmSource == <<<<"e", "x", "p", "o", "r", "t", " ", "d", "e", "f", "a", "u", "l", "t", " ", "1", ";">>>>

EntryAnalyses ==
  {Esm(EsmSource), AnalyzeFails,
   Cjs(<<<<"f", "o", "o">>, <<"d", "e", "f", "a", "u", "l", "t">>, <<"b", "a", "r", "-", "x">>>>, <<>>),
   Cjs(<<<<"f", "o", "o">>, <<"f", "o", "o">>, <<"s", "t", "a", "t", "i", "c">>>>, <<"a", "b">>),
   Cjs(<<<<"3", "d">>>>, <<"a", "x", "b">>),
   Cjs(<<<<"f", "o", "o">>>>, <<"x", "x">>),
   Cjs(<<<<"r", "e", "q", "u", "i", "r", "e">>, <<"m", "o", "d">>, <<"_", "_", "i", "n", "t", "e", "r", "n", "a", "l", "C", "r", "e", "a", "t", "e", "R", "e", "q", "u", "i", "r", "e">>, <<"_", "_", "d", "e", "n", "o", "_", "e", "x", "p", "o", "r", "t", "_", "1", "_", "_">>, <<"3", "d">>>>, <<>>)}

AnalysesOfA ==
  {Cjs(<<<<"a", "1">>, <<"d", "e", "f", "a", "u", "l", "t">>>>, <<"c">>), Cjs(<<<<"f", "o", "o">>>>, <<"e", "b">>),
   Esm(EsmSource), AnalyzeFails}

AnalysesOfB ==
  {Cjs(<<<<"b", "1">>>>, <<"c">>), Cjs(<<<<"b", "1">>, <<"3", "d">>>>, <<>>), AnalyzeFails}

AnalysesOfC ==
  {Cjs(<<<<"c", "1">>>>, <<>>), Cjs(<<<<"c", "1">>, <<"d", "e", "f", "a", "u", "l", "t">>>>, <<"a">>), Esm(EsmSource),
   AnalyzeFails}

TranslateInputs ==
  {[op |-> "translate_cjs_to_esm", entry |-> EntryModule,
    analyses |-> [m \in TranslatorModules |->
                    CASE m = "e" -> e [] m = "a" -> a [] m = "b" -> b
                      [] OTHER -> c]] :
     e \in EntryAnalyses, a \in AnalysesOfA, b \in AnalysesOfB, c \in AnalysesOfC}

\* Export names: identifiers, reserved words, names that are no identifiers
\* and names with characters to escape.
ExportNames ==
  {<<"s", "t", "a", "t", "i", "c">>, <<"s", "e", "r", "v", "e", "r">>, <<"a", "p", "p">>, <<"d", "a", "s", "h", "e", "d", "-", "e", "x", "p", "o", "r", "t">>, <<"3", "d">>, <<>>, <<"_", "a">>, <<"$">>,
   <<"a", " ", "b">>, <<"a", "\"", "b">>, <<"a", "\\", "b">>, <<"m", "o", "d">>, <<"S", "t", "a", "t", "i", "c">>, <<"f", "o", "o", "1">>, <<"i", "f">>, <<"d", "e", "f", "a", "u", "l", "t">>,
   <<"A", "1", "_", "$">>, <<"-">>, <<"a", ".", "b">>, <<"y", "i", "e", "l", "d">>, <<"g", "e", "t">>}

AddExportInputs ==
  {[op |-> "add_export", source |-> s, name |-> n, initializer |-> <<"i", "n", "i", "t">>,
    temp_var_count |-> k] :
     s \in {<<>>, <<<<"c", "o", "n", "s", "t", " ", "m", "o", "d", " ", "=", " ", "1", ";">>>>}, n \in ExportNames, k \in {0, 1, 9}}

InitTranslate ==
  InitProgram /\ input \in TranslateInputs \cup AddExportInputs /\ output = NoOutput

NextTranslate ==
  \/ TranslateCjsToEsm
  \/ \E f \in analyze_futures : CompleteAnalysis(f)
  \/ TranslateAgain
  \/ CallAddExport

\* One NodeCodeTranslator translating an entry twice over the same analyzer
\* and resolver, and add_export applied to names.
SpecTranslate == InitTranslate /\ [][NextTranslate]_vars

\* The name can be declared with "export const": it is not empty, starts
\* with [A-Za-z_$], goes on with [A-Za-z0-9_$] and is no reserved word.
IsIdentifier(name) ==
  /\ Len(name) > 0
  /\ name[1] \in AsciiAlphabetic \cup {"_", "$"}
  /\ \A i \in 2..Len(name) : name[i] \in AsciiAlphanumeric \cup {"_", "$"}
  /\ name \notin RESERVED_WORDS

\* C28: add_export pushes `export const <name> = <init>;` exactly when the
\* name is an identifier that is no reserved word, and for every other name
\* `const __deno_export_N__ = <init>;` followed by
\* `export { __deno_export_N__ as "<escaped name>" };`.
C28_AddExportLines ==
  (input.op = "add_export" /\ output # NoOutput)
  => LET number == UsizeToString(input.temp_var_count + 1)
     IN IF IsIdentifier(input.name)
        THEN output.added.source =
               Append(input.source,
                      <<"e", "x", "p", "o", "r", "t", " ", "c", "o", "n", "s", "t", " ">> \o input.name \o <<" ", "=", " ">> \o input.initializer
                        \o <<";">>)
        ELSE output.added.source =
               input.source \o
                 <<<<"c", "o", "n", "s", "t", " ", "_", "_", "d", "e", "n", "o", "_", "e", "x", "p", "o", "r", "t", "_">> \o number \o <<"_", "_", " ", "=", " ">>
                     \o input.initializer \o <<";">>,
                   <<"e", "x", "p", "o", "r", "t", " ", "{", " ", "_", "_", "d", "e", "n", "o", "_", "e", "x", "p", "o", "r", "t", "_">> \o number \o <<"_", "_", " ", "a", "s", " ", "\"">>
                     \o EscapeForDoubleQuoteString(input.name) \o <<"\"", " ", "}", ";">>>>

\* "static" after nine aliases was exported through __deno_export_10__.
C28_Witness ==
  /\ input.op = "add_export"
  /\ input.name = <<"s", "t", "a", "t", "i", "c">>
  /\ input.temp_var_count = 9
  /\ input.source = <<>>
  /\ output # NoOutput
  /\ output.added.source =
       <<<<"c", "o", "n", "s", "t", " ", "_", "_", "d", "e", "n", "o", "_", "e", "x", "p", "o", "r", "t", "_", "1", "0", "_", "_", " ", "=", " ", "i", "n", "i", "t", ";">>,
         <<"e", "x", "p", "o", "r", "t", " ", "{", " ", "_", "_", "d", "e", "n", "o", "_", "e", "x", "p", "o", "r", "t", "_", "1", "0", "_", "_", " ", "a", "s", " ", "\"", "s", "t", "a", "t", "i", "c", "\"", " ", "}", ";">>>>

\* The non-default names of the set in the order they are emitted.
EmittedNames(exports) == SortNames(exports \ {DefaultName})

\* The names among the first k emitted that need an alias.
AliasedAmong(names, k) == {i \in 1..k : ~IsIdentifier(names[i])}

\* The lines the i-th emitted name gets when the counter is advanced by
\* the aliased names only.
LinesOf(names, i) ==
  IF IsIdentifier(names[i])
  THEN <<<<"e", "x", "p", "o", "r", "t", " ", "c", "o", "n", "s", "t", " ">> \o names[i] \o <<" ", "=", " ">> \o Initializer(names[i]) \o <<";">>>>
  ELSE <<<<"c", "o", "n", "s", "t", " ", "_", "_", "d", "e", "n", "o", "_", "e", "x", "p", "o", "r", "t", "_">>
           \o UsizeToString(Cardinality(AliasedAmong(names, i)))
           \o <<"_", "_", " ", "=", " ">> \o Initializer(names[i]) \o <<";">>,
         <<"e", "x", "p", "o", "r", "t", " ", "{", " ", "_", "_", "d", "e", "n", "o", "_", "e", "x", "p", "o", "r", "t", "_">>
           \o UsizeToString(Cardinality(AliasedAmong(names, i)))
           \o <<"_", "_", " ", "a", "s", " ", "\"">> \o EscapeForDoubleQuoteString(names[i]) \o <<"\"", " ", "}", ";">>>>

RECURSIVE LinesUpTo(_, _)
LinesUpTo(names, k) ==
  IF k = 0 THEN <<>> ELSE LinesUpTo(names, k - 1) \o LinesOf(names, k)

\* The source of a successful translation of a CJS entry.
TranslatedCjs ==
  /\ input.op = "translate_cjs_to_esm"
  /\ input.analyses[input.entry].kind = "Cjs"
  /\ translated # NotTranslated
  /\ translated.kind = "Ok"

\* C29: in one translation the counter starts at 0 and is advanced by one
\* by each export that needs an alias and by no other, in sorted export
\* order: the k-th aliased export is exported through __deno_export_k__,
\* so no two temporaries share a number; and add_export leaves the counter
\* as it was for a name emitted with "export const".
C29_TempVarCounter ==
  /\ TranslatedCjs
     => translated.source =
          Append(Prelude, RequireLine(input.entry))
            \o LinesUpTo(EmittedNames(all_exports),
                         Len(EmittedNames(all_exports)))
            \o <<ExportDefault>>
  /\ (input.op = "add_export" /\ output # NoOutput)
     => output.added.temp_var_count =
          IF IsIdentifier(input.name)
          THEN input.temp_var_count
          ELSE input.temp_var_count + 1

\* A translation exported "3d" and "static", in this order, through
\* __deno_export_1__ and __deno_export_2__, with "export const" lines
\* between them.
C29_Witness ==
  /\ TranslatedCjs
  /\ \E i, j \in 1..Len(translated.source) :
       /\ i < j - 2
       /\ translated.source[i] = <<"e", "x", "p", "o", "r", "t", " ", "{", " ", "_", "_", "d", "e", "n", "o", "_", "e", "x", "p", "o", "r", "t", "_", "1", "_", "_", " ", "a", "s", " ", "\"", "3", "d", "\"", " ", "}", ";">>
       /\ translated.source[j] = <<"e", "x", "p", "o", "r", "t", " ", "{", " ", "_", "_", "d", "e", "n", "o", "_", "e", "x", "p", "o", "r", "t", "_", "2", "_", "_", " ", "a", "s", " ", "\"", "s", "t", "a", "t", "i", "c", "\"", " ", "}", ";">>

\* C30: when the analyzer reports the entry as Esm(src), the call returns
\* src as it is, and node_resolver.resolve was not called and analyze_cjs
\* was called for the entry only.
C30_EsmEntryUnchanged ==
  (/\ input.op = "translate_cjs_to_esm"
   /\ input.analyses[input.entry].kind = "Esm"
   /\ Len(analysed) # 0)
  => /\ translated = TranslatedOk(input.analyses[input.entry].source)
     /\ resolved = {}
     /\ analyze_futures = {}
     /\ analysed = <<input.entry>>

\* An entry analysed as Esm was translated, in a program whose module a
\* is CJS with reexports.
C30_Witness ==
  /\ input.op = "translate_cjs_to_esm"
  /\ input.analyses[input.entry].kind = "Esm"
  /\ input.analyses["a"].kind = "Cjs"
  /\ translated # NotTranslated
  /\ translated.kind = "Ok"
  /\ translated.source = EsmSource

\* The modules the reexports of a CJS module resolve to.
ReexportedBy(m) ==
  IF input.analyses[m].kind # "Cjs" THEN {}
  ELSE {NodeResolve(r, m).specifier :
          r \in {x \in Range(input.analyses[m].reexports) : NodeResolve(x, m).ok}}

\* The modules reachable from those of the set through chains of reexports.
RECURSIVE ReexportClosure(_)
ReexportClosure(modules) ==
  LET more == modules \cup UNION {ReexportedBy(m) : m \in modules}
  IN IF more = modules THEN modules ELSE ReexportClosure(more)

ReachableModules == ReexportClosure({input.entry})

\* The exports of the entry and of every module reachable from it, but
\* "default".
ReachableExports ==
  UNION {Range(input.analyses[m].exports) : m \in ReachableModules} \ {DefaultName}

\* Every export name of the program, and "default".
AllNames ==
  UNION {Range(input.analyses[m].exports) : m \in TranslatorModules}
    \cup {DefaultName}

\* The line exports the name: with "export const", or as the alias of a
\* temporary.
ExportsName(line, name) ==
  \/ StartsWith(line, <<"e", "x", "p", "o", "r", "t", " ", "c", "o", "n", "s", "t", " ">> \o name \o <<" ", "=", " ">>)
  \/ \E k \in 1..Cardinality(AllNames) :
       line = <<"e", "x", "p", "o", "r", "t", " ", "{", " ", "_", "_", "d", "e", "n", "o", "_", "e", "x", "p", "o", "r", "t", "_">> \o UsizeToString(k) \o <<"_", "_", " ", "a", "s", " ", "\"">>
                \o EscapeForDoubleQuoteString(name) \o <<"\"", " ", "}", ";">>

LinesExporting(source, name) ==
  {i \in 1..Len(source) : ExportsName(source[i], name)}

\* C25: the source of a successful translation of a CJS entry exports, once
\* each, exactly the exports of the entry and of the modules reachable from
\* it through reexports other than "default", and ends with its only
\* `export default mod;`.
C25_ExportsOfReachable ==
  TranslatedCjs
  => /\ \A n \in AllNames :
          Cardinality(LinesExporting(translated.source, n)) =
            IF n \in ReachableExports THEN 1 ELSE 0
     /\ translated.source[Len(translated.source)] = ExportDefault
     /\ Cardinality({i \in 1..Len(translated.source) :
                       translated.source[i] = ExportDefault}) = 1

\* A translation succeeded whose entry reaches c only through a or b, and
\* whose source exports c's c1 and the entry's foo, the entry listing foo
\* twice.
C25_Witness ==
  /\ TranslatedCjs
  /\ "c" \in ReachableModules
  /\ "c" \notin ReexportedBy(input.entry)
  /\ input.analyses[input.entry].exports = <<<<"f", "o", "o">>, <<"f", "o", "o">>, <<"s", "t", "a", "t", "i", "c">>>>
  /\ LinesExporting(translated.source, <<"c", "1">>) # {}
  /\ LinesExporting(translated.source, <<"f", "o", "o">>) # {}

\* The translation of a CJS entry returned.
ReturnedForCjs ==
  /\ input.op = "translate_cjs_to_esm"
  /\ input.analyses[input.entry].kind = "Cjs"
  /\ translated # NotTranslated

\* The reexports of reachable CJS modules that do not resolve, each with
\* its referrer.
UnresolvedReexports ==
  {<<r, m>> \in UNION {Range(input.analyses[m].reexports) \X {m} :
                         m \in {x \in ReachableModules :
                                  input.analyses[x].kind = "Cjs"}} :
     ~NodeResolve(r, m).ok}

\* The reexported modules whose analysis fails or that are ES modules.
UnusableModules ==
  {m \in ReachableModules \ {input.entry} : input.analyses[m].kind # "Cjs"}

\* C27: when a reexport does not resolve, an analysis fails or a reexported
\* module is an ES module, the translation returns an error and no source;
\* the error is one of those collected and none of them has a lesser text;
\* and every reexport of every reachable module was resolved and every
\* reachable module analysed, once, whatever failed.
C27_ErrorsCollected ==
  ReturnedForCjs
  => /\ (UnresolvedReexports # {} \/ UnusableModules # {})
        => /\ translated.kind = "Err"
           /\ Len(translated.source) = 0
           /\ \E i \in 1..Len(errors) : errors[i] = translated.error
           /\ \A i \in 1..Len(errors) :
                ~StrLess(ErrorToString(errors[i]), ErrorToString(translated.error))
     /\ (UnresolvedReexports = {} /\ UnusableModules = {})
        => translated.kind = "Ok"
     /\ \A p \in UnresolvedReexports :
          \E i \in 1..Len(errors) : errors[i] = ResolveError(p[1], p[2])
     /\ \A m \in UnusableModules :
          \E i \in 1..Len(errors) :
            /\ errors[i].specifier = m
            /\ errors[i].kind =
                 IF input.analyses[m].kind = "Esm" THEN "Esm" ELSE "Load"
     /\ \A m \in ReachableModules :
          \A r \in Range(input.analyses[m].reexports) : <<r, m>> \in resolved
     /\ Range(analysed) = ReachableModules
     /\ Len(analysed) = Cardinality(ReachableModules)

\* A translation failed with three errors collected, returned another
\* error than the one pushed first, and analysed module b after the first
\* error was pushed.
C27_Witness ==
  /\ ReturnedForCjs
  /\ translated.kind = "Err"
  /\ Len(errors) >= 3
  /\ translated.error # errors[1]
  /\ errors[1].kind = "Resolve"
  /\ \E i \in 1..Len(analysed) : analysed[i] = "b"

\* C26: with the same analyzer and resolver answers a second translation
\* of the entry returns what the first returned, the source or the error,
\* in whatever orders the analyses of the two translations completed.
C26_SameForEveryOrder ==
  (firstResult # NotTranslated /\ translated # NotTranslated)
  => translated = firstResult

\* The number of analyze_cjs calls made for module m so far.
TimesAnalysed(m) == Cardinality({i \in 1..Len(analysed) : analysed[i] = m})

\* C37: during one translation analyze_cjs is called at most once for each
\* resolved module and for the entry only at the start, so the calls number
\* at most the modules; and while the call has not returned an analysis is
\* under way whose module was not analysed before, so the expansion ends
\* also when the reexports form a cycle.
C37_AnalysedOnce ==
  input.op = "translate_cjs_to_esm"
  => /\ \A m \in TranslatorModules : TimesAnalysed(m) <= 1
     /\ \A i \in 2..Len(analysed) : analysed[i] # input.entry
     /\ Len(analysed) <= Cardinality(TranslatorModules)
     /\ \A f \in analyze_futures : TimesAnalysed(f.reexport_specifier) = 0
     /\ (Len(analysed) > 0 /\ translated = NotTranslated)
        => analyze_futures # {}

\* A translation returned where a reexports c, c reexports a, and both
\* were analysed.
C37_Witness ==
  /\ input.op = "translate_cjs_to_esm"
  /\ translated # NotTranslated
  /\ input.analyses["a"].kind = "Cjs"
  /\ input.analyses["c"].kind = "Cjs"
  /\ "c" \in Range(input.analyses["a"].reexports)
  /\ "a" \in Range(input.analyses["c"].reexports)
  /\ TimesAnalysed("a") = 1
  /\ TimesAnalysed("c") = 1

\* The text after the leading spaces of a line.
RECURSIVE TrimStart(_)
TrimStart(line) ==
  IF Len(line) > 0 /\ Head(line) = " " THEN TrimStart(Tail(line)) ELSE line

\* The text up to the first of the characters in stops.
RECURSIVE UpTo(_, _)
UpTo(text, stops) ==
  IF Len(text) = 0 \/ Head(text) \in stops THEN <<>>
  ELSE <<Head(text)>> \o UpTo(Tail(text), stops)

\* The identifier a line of the emitted module declares at the top level,
\* or the empty text for a line that declares none.
Declares(line) ==
  LET text == TrimStart(line)
  IN IF StartsWith(text, <<"i", "m", "p", "o", "r", "t", " ", "{", "c", "r", "e", "a", "t", "e", "R", "e", "q", "u", "i", "r", "e", " ", "a", "s", " ">>)
     THEN UpTo(SubSeq(text, 26, Len(text)), {"}", " "})
     ELSE IF StartsWith(text, <<"e", "x", "p", "o", "r", "t", " ", "c", "o", "n", "s", "t", " ">>)
     THEN UpTo(SubSeq(text, 14, Len(text)), {" "})
     ELSE IF StartsWith(text, <<"c", "o", "n", "s", "t", " ">>)
     THEN UpTo(SubSeq(text, 7, Len(text)), {" "})
     ELSE <<>>

\* C38: no two lines of the module translate_cjs_to_esm emits declare the
\* same top-level identifier: not an export and the prelude's require, the
\* mod binding or the imported __internalCreateRequire, and not two
\* emitted declarations.
C38_NoDuplicateDeclaration ==
  TranslatedCjs
  => \A i, j \in 1..Len(translated.source) :
       (i < j /\ Declares(translated.source[i]) # <<>>)
       => Declares(translated.source[i]) # Declares(translated.source[j])

\* The package contexts of the tree under the root, k levels deep at most.
RECURSIVE ContextsWithin(_)
ContextsWithin(k) ==
  IF k = 0 THEN {rootChildren[n] : n \in Names} \ {0}
  ELSE LET above == ContextsWithin(k - 1)
       IN above \cup
            ({nodes[id].children[n] : id \in above, n \in Names} \ {0})

\* The versions of name n chosen anywhere in the resolution.
ChosenVersions(n) ==
  LET contexts == ContextsWithin(Len(nodes))
  IN {nodes[rootChildren[m]].version : m \in {n} \cap {x \in Names : rootChildren[x] # 0}}
       \cup {nodes[nodes[id].children[n]].version :
               id \in {x \in contexts : nodes[x].children[n] # 0}}

\* The call is about to process a requirement, and the requirement.
HasRequirement(c) ==
  pc[c] = "run" /\ (Unwind(stack[c]) # <<>> \/ queue[c] # <<>>)

RequirementOf(c) ==
  LET st == Unwind(stack[c])
  IN IF st # <<>> THEN Head(st[Len(st)].deps) ELSE Head(queue[c])

\* C35: when a requirement for name n is processed, top-level or of a
\* package, and a version of n chosen somewhere in the resolution satisfies
\* its range, the requirement is bound to a chosen version: the step goes
\* on to the next requirement, no package info is fetched for a new
\* PackageId and no package context is created.
C35_ChosenVersionReused ==
  [][\A c \in Calls :
       (/\ HasRequirement(c)
        /\ \E v \in ChosenVersions(RequirementOf(c).name) :
             Matches(RequirementOf(c).version_req, v)
        /\ <<pc[c], stack[c], queue[c]>>' # <<pc[c], stack[c], queue[c]>>)
       => /\ pc'[c] = "run"
          /\ Len(nodes') = Len(nodes)
          /\ rootChildren' = rootChildren]_vars

(***************************************************************************)
(* tarball.rs: verify_and_extract_tarball                                  *)
(***************************************************************************)
\* The entries of the archive the data holds.
ArchiveEntries(data) ==
  CASE data = <<>> -> 0 [] data = <<0>> -> 1 [] OTHER -> 2

\* The call in progress or returned: the result, whether the output folder
\* was created and how many entries were unpacked into it.
Extraction(kind, res, created, unpacked) ==
  [kind |-> kind, result |-> res, created |-> created, unpacked |-> unpacked]

ExtractErr ==
  [kind |-> "unpack_failed", package |-> "", what |-> <<>>, expected |-> <<>>,
   actual |-> <<>>]

\* The start of the call, were the result of verify_tarball dropped.
VerifyIgnoredThenExtract(package, data, npm_integrity) ==
  Extraction("extracting", VerifyOk, FALSE, 0)

\* verify_tarball(package, data, npm_integrity)?: the error is returned,
\* or extract_tarball(data, output_folder) is entered.
VerifyThenExtract(package, data, npm_integrity) ==
  LET verified == VerifyTarball(package, data, npm_integrity)
  IN IF verified # VerifyOk
     THEN Extraction("returned", verified, FALSE, 0)
     ELSE Extraction("extracting", VerifyOk, FALSE, 0)

\* verify_and_extract_tarball is called.
VerifyAndExtractTarball ==
  /\ input.op = "verify_and_extract_tarball"
  /\ output = NoOutput
  /\ output' = VerifyThenExtract(input.package, input.data, input.npm_integrity)
  /\ UNCHANGED <<input, rvars, cvars, avars, tvars>>

\* archive.unpack(output_folder): the folder is created, then one entry
\* after the other is unpacked into it; after the last one Ok(()) is returned.
UnpackStep ==
  /\ input.op = "verify_and_extract_tarball"
  /\ output # NoOutput
  /\ output.kind = "extracting"
  /\ output' =
       IF ~output.created
       THEN [output EXCEPT !.created = TRUE]
       ELSE IF output.unpacked < ArchiveEntries(input.data)
       THEN [output EXCEPT !.unpacked = @ + 1]
       ELSE [output EXCEPT !.kind = "returned"]
  /\ UNCHANGED <<input, rvars, cvars, avars, tvars>>

\* archive.unpack(output_folder)? fails: on the folder or on an entry.
UnpackFails ==
  /\ input.op = "verify_and_extract_tarball"
  /\ output # NoOutput
  /\ output.kind = "extracting"
  /\ output' = [output EXCEPT !.kind = "returned", !.result = ExtractErr]
  /\ UNCHANGED <<input, rvars, cvars, avars, tvars>>

ExtractInputs ==
  [op : {"verify_and_extract_tarball"}, package : VerifyPackages, data : Datas,
   npm_integrity : Integrities]

InitExtract == InitProgram /\ input \in ExtractInputs /\ output = NoOutput

NextExtract ==
  \/ VerifyAndExtractTarball
  \/ UnpackStep
  \/ UnpackFails

\* verify_and_extract_tarball applied to each package, data and integrity
\* string, the extraction taken entry by entry.
SpecExtract == InitExtract /\ [][NextExtract]_vars

\* C36: the output folder is created and entries are unpacked into it only
\* when verify_tarball of the same package, bytes and integrity string
\* succeeded; when it fails the call returns that error at once, and
\* nothing was created or written under the output folder.
C36_ExtractAfterVerify ==
  (input.op = "verify_and_extract_tarball" /\ output # NoOutput)
  => LET verified ==
           VerifyTarball(input.package, input.data, input.npm_integrity)
     IN /\ (output.kind = "extracting" \/ output.created \/ output.unpacked > 0)
           => verified = VerifyOk
        /\ verified # VerifyOk
           => /\ output.kind = "returned"
              /\ output.result = verified
              /\ ~output.created
              /\ output.unpacked = 0

\* A verified archive of two entries was unpacked and Ok returned.
C36_Witness ==
  /\ input.op = "verify_and_extract_tarball"
  /\ output # NoOutput
  /\ output.kind = "returned"
  /\ output.result = VerifyOk
  /\ output.created
  /\ output.unpacked = 2

(***************************************************************************)
(* node_types.rs: NodeTypes::build                                         *)
(***************************************************************************)
NODE_TYPES_VERSION == "18.6.5"

\* A package info is the set of its versions; NoInfo: nothing is cached on
\* disk, or the registry answers 404.
NoInfo == {"none"}

PackageInfos == {{}, {"18.0.0"}, {"18.0.0", NODE_TYPES_VERSION}, {NODE_TYPES_VERSION}}

\* api.package_info(name) of an api made with NpmRegistryApi::new(cache,
\* reload): without reload the info cached on disk is returned when there
\* is one; otherwise the registry is asked, and the request may fail or
\* find no such package.
ApiPackageInfo(reload, disk, registry, fails) ==
  IF ~reload /\ disk # NoInfo
  THEN [kind |-> "Ok", info |-> disk, requested |-> FALSE]
  ELSE IF fails
  THEN [kind |-> "err_request", info |-> {}, requested |-> TRUE]
  ELSE IF registry = NoInfo
  THEN [kind |-> "err_not_exist", info |-> {}, requested |-> TRUE]
  ELSE [kind |-> "Ok", info |-> registry, requested |-> TRUE]

\* The build in progress or returned: the state reached, the infos the
\* package_info calls returned, the requests made and the reload flag.
Building(kind, res, infos, requests, reload) ==
  [kind |-> kind, result |-> res, infos |-> infos, requests |-> requests,
   reload |-> reload]

\* What follows a package_info call that returned `got`: its error is
\* returned, or the version info is taken, or it is missing.
AfterPackageInfo(got, before, whenMissing) ==
  LET requests == before.requests + (IF got.requested THEN 1 ELSE 0)
  IN IF got.kind # "Ok"
     THEN Building("returned", got.kind, before.infos, requests, before.reload)
     ELSE IF NODE_TYPES_VERSION \in got.info
     THEN Building("ensure", "none", Append(before.infos, got.info), requests,
                   before.reload)
     ELSE IF whenMissing = "reload"
     THEN Building("second", "none", Append(before.infos, got.info), requests, TRUE)
     ELSE Building("returned", "panic", Append(before.infos, got.info), requests,
                   before.reload)

\* NodeTypes::build up to its second await: the api is made without
\* reload and the package info asked for; an old cache forces the reload.
Build ==
  /\ input.op = "build"
  /\ output = NoOutput
  /\ output' =
       AfterPackageInfo(
         ApiPackageInfo(FALSE, input.disk, input.registry, input.fails[1]),
         Building("first", "none", <<>>, 0, FALSE), "reload")
  /\ UNCHANGED <<input, rvars, cvars, avars, tvars>>

\* The package_info call after api.set_reload(true), and
\* package_info.versions.remove(NODE_TYPES_VERSION).unwrap().
BuildReloaded ==
  /\ input.op = "build"
  /\ output # NoOutput
  /\ output.kind = "second"
  /\ output' =
       AfterPackageInfo(
         ApiPackageInfo(output.reload, input.disk, input.registry,
                        input.fails[output.requests + 1]),
         output, "unwrap")
  /\ UNCHANGED <<input, rvars, cvars, avars, tvars>>

\* cache.ensure_package(&package_id, &version_info.dist).await? and the
\* rest of the build, which succeed or fail.
BuildEnsurePackage ==
  /\ input.op = "build"
  /\ output # NoOutput
  /\ output.kind = "ensure"
  /\ \E res \in {"ok", "err_ensure_package"} :
       output' = [output EXCEPT !.kind = "returned", !.result = res]
  /\ UNCHANGED <<input, rvars, cvars, avars, tvars>>

BuildInputs ==
  [op : {"build"}, disk : PackageInfos \cup {NoInfo},
   registry : PackageInfos \cup {NoInfo}, fails : [1..2 -> BOOLEAN]]

InitBuild == InitProgram /\ input \in BuildInputs /\ output = NoOutput

NextBuild ==
  \/ Build
  \/ BuildReloaded
  \/ BuildEnsurePackage

\* NodeTypes::build over every disk cache, registry answer and failing
\* request.
SpecBuild == InitBuild /\ [][NextBuild]_vars

\* C34: when the info obtained first lacks the required version the reload
\* is forced and package_info is called exactly once more; the build goes
\* on when the version is then there, and returns an error when it is still
\* missing; an error of either package_info call is returned, and no call
\* is made after it.
C34_ReloadOnce ==
  (input.op = "build" /\ output # NoOutput)
  => /\ Len(output.infos) <= 2
     /\ output.requests <= 2
     /\ (Len(output.infos) >= 1 /\ NODE_TYPES_VERSION \notin output.infos[1])
        => /\ output.reload
           /\ output.kind = "second" \/ output.requests >= 1
     /\ (Len(output.infos) = 2 /\ NODE_TYPES_VERSION \in output.infos[2])
        => output.kind = "ensure" \/ output.result \in {"ok", "err_ensure_package"}
     /\ (Len(output.infos) = 2 /\ NODE_TYPES_VERSION \notin output.infos[2])
        => /\ output.kind = "returned"
           /\ output.result \in {"err_request", "err_not_exist", "err_version_missing"}
     /\ output.result \in {"err_request", "err_not_exist"}
        => output.kind = "returned"

(***************************************************************************)
(* byonm.rs: the resolver over a node_modules tree.  A path is the         *)
(* sequence of its components, the root the empty sequence; a component    *)
(* and a package name are texts.                                           *)
(***************************************************************************)
NodeModulesName == <<"node_modules">>

PackageJsonName == <<"package.json">>

\* Path::parent of a path that has one.
ParentOf(path) == SubSeq(path, 1, Len(path) - 1)

\* Path::file_name is Some(text): the path's last component is the text.
FileNameIs(path, text) == Len(path) > 0 /\ path[Len(path)] = text

\* in_npm_package of a file URL: the URL path contains "/node_modules/".
InNpmPackage(specifier) ==
  \E i \in 1..(Len(specifier) - 1) : specifier[i] = NodeModulesName

NoFolder == [kind |-> "None", path |-> <<>>]

SomeFolder(path) == [kind |-> "Some", path |-> path]

\* "while let Some(parent) = path.parent()" of the in_npm_package branch.
RECURSIVE WalkToNodeModules(_)
WalkToNodeModules(path) ==
  IF Len(path) = 0 THEN NoFolder
  ELSE IF FileNameIs(ParentOf(path), NodeModulesName) THEN SomeFolder(path)
  ELSE WalkToNodeModules(ParentOf(path))

\* "while let Some(parent) = path.parent()" of the other branch: the
\* nearest parent with a package.json in it.
RECURSIVE WalkToPackageJson(_, _)
WalkToPackageJson(fs, path) ==
  IF Len(path) = 0 THEN NoFolder
  ELSE IF Append(ParentOf(path), PackageJsonName) \in fs.files
  THEN SomeFolder(ParentOf(path))
  ELSE WalkToPackageJson(fs, ParentOf(path))

\* resolve_package_folder_from_path
ResolvePackageFolderFromPath(fs, specifier) ==
  IF InNpmPackage(specifier)
  THEN WalkToNodeModules(specifier)
  ELSE WalkToPackageJson(fs, specifier)

\* join_package_name: the path joined with each part of the name.
JoinPackageName(path, package_name) == path \o Split(package_name, "/")

TypesPrefix == <<"@", "types", "/">>

\* types_package_name: "@types/" and the name with "__" for each "/".
TypesPackageName(package_name) ==
  TypesPrefix \o Replace(package_name, "/", <<"_", "_">>)

\* What one turn of the loop decides: a return, or the move to the parent;
\* with the directories given to is_dir_sync and the package.json files
\* loaded in the turn.
Turn(kind, path, probes, loads) ==
  [kind |-> kind, path |-> path, probes |-> probes, loads |-> loads]

\* The turn as it would be without the test of the types property.
LoopTurnWithoutTypesTest(fs, name, mode, current_folder) ==
  LET node_modules_folder ==
        IF FileNameIs(current_folder, NodeModulesName)
        THEN current_folder
        ELSE Append(current_folder, NodeModulesName)
      sub_dir == JoinPackageName(node_modules_folder, name)
      types_dir == JoinPackageName(node_modules_folder, TypesPackageName(name))
      for_types == mode = "types" /\ ~StartsWith(name, TypesPrefix)
  IN IF sub_dir \in fs.dirs
     THEN Turn("Ok", sub_dir, <<sub_dir>>, <<>>)
     ELSE IF for_types
     THEN IF types_dir \in fs.dirs
          THEN Turn("Ok", types_dir, <<sub_dir, types_dir>>, <<>>)
          ELSE Turn("Next", <<>>, <<sub_dir, types_dir>>, <<>>)
     ELSE Turn("Next", <<>>, <<sub_dir>>, <<>>)

\* One turn of the loop of resolve_package_folder_from_package.
LoopTurn(fs, name, mode, current_folder) ==
  LET node_modules_folder ==
        IF FileNameIs(current_folder, NodeModulesName)
        THEN current_folder
        ELSE Append(current_folder, NodeModulesName)
      sub_dir == JoinPackageName(node_modules_folder, name)
      types_dir == JoinPackageName(node_modules_folder, TypesPackageName(name))
      for_types == mode = "types" /\ ~StartsWith(name, TypesPrefix)
      package_json == Append(sub_dir, PackageJsonName)
      loads == IF sub_dir \in fs.dirs /\ for_types THEN <<package_json>> ELSE <<>>
  IN IF sub_dir \in fs.dirs /\ ~for_types
     THEN Turn("Ok", sub_dir, <<sub_dir>>, <<>>)
     ELSE IF sub_dir \in fs.dirs /\ sub_dir \in fs.broken
     THEN Turn("ErrLoad", package_json, <<sub_dir>>, loads)
     ELSE IF sub_dir \in fs.dirs /\ sub_dir \in fs.types
     THEN Turn("Ok", sub_dir, <<sub_dir>>, loads)
     ELSE IF for_types
     THEN IF types_dir \in fs.dirs
          THEN Turn("Ok", types_dir, <<sub_dir, types_dir>>, loads)
          ELSE Turn("Next", <<>>, <<sub_dir, types_dir>>, loads)
     ELSE Turn("Next", <<>>, <<sub_dir>>, loads)

\* The loop from current_folder on, and the bail! after it.
RECURSIVE PackageLoop(_, _, _, _)
PackageLoop(fs, name, mode, current_folder) ==
  LET turn == LoopTurn(fs, name, mode, current_folder)
  IN IF turn.kind # "Next" THEN turn
     ELSE LET rest == IF Len(current_folder) > 0
                      THEN PackageLoop(fs, name, mode, ParentOf(current_folder))
                      ELSE Turn("ErrNotFound", <<>>, <<>>, <<>>)
          IN Turn(rest.kind, rest.path, turn.probes \o rest.probes,
                  turn.loads \o rest.loads)

\* self.resolve_package_folder_from_path(&referrer)?: where the loop starts.
StartFolder(fs, referrer) == ResolvePackageFolderFromPath(fs, referrer)

\* resolve_package_folder_from_package: the folder, or an error that names
\* the package and the referrer, or the panic of the unwrap.
ResolvePackageFolderFromPackage(fs, name, referrer, mode) ==
  LET package_root_path == StartFolder(fs, referrer)
  IN IF package_root_path.kind = "None"
     THEN [kind |-> "panic", path |-> <<>>, name |-> <<>>, referrer |-> <<>>,
           probes |-> <<>>, loads |-> <<>>]
     ELSE LET found == PackageLoop(fs, name, mode, package_root_path.path)
          IN [kind |-> found.kind, path |-> found.path,
              name |-> IF found.kind = "ErrNotFound" THEN name ELSE <<>>,
              referrer |-> IF found.kind = "ErrNotFound" THEN referrer ELSE <<>>,
              probes |-> found.probes, loads |-> found.loads]

\* The paths of the trees: each component given as one word, a scope as
\* "@" and its word.
Words(path) == [i \in 1..Len(path) |-> <<path[i]>>]

ProjModules == Words(<<"proj", "node_modules">>)

ScopeDir == Append(ProjModules, <<"@", "scope">>)

TypesDir == Append(ProjModules, <<"@", "types">>)

ScopedPkg == Append(ScopeDir, <<"pkg">>)

\* The directories every tree has, and those only some have.
BaseDirs ==
  {<<>>, Words(<<"proj">>), Words(<<"proj", "src">>),
   Words(<<"proj", "src", "node_modules">>), ProjModules,
   ProjModules \o Words(<<"typed">>), ScopeDir, ScopedPkg,
   ScopedPkg \o Words(<<"lib">>), ScopedPkg \o Words(<<"node_modules">>),
   ScopedPkg \o Words(<<"node_modules", "inner">>),
   TypesDir, Append(TypesDir, <<"node">>),
   Append(TypesDir, <<"@", "scope", "_", "_", "pkg">>),
   Words(<<"node_modules">>), Words(<<"node_modules", "top">>),
   Words(<<"other">>)}

OptionalDirs ==
  {Words(<<"proj", "src", "node_modules", "dep">>),
   ProjModules \o Words(<<"dep">>), Append(TypesDir, <<"dep">>)}

\* The files of every tree.
TreeFiles ==
  {Words(<<"proj", "package.json">>), Words(<<"proj", "src", "a.js">>),
   ProjModules \o Words(<<"dep", "index.js">>),
   ProjModules \o Words(<<"loose.js">>),
   ScopedPkg \o Words(<<"package.json">>), ScopedPkg \o Words(<<"index.js">>),
   ScopedPkg \o Words(<<"lib", "file.js">>),
   ScopedPkg \o Words(<<"node_modules", "inner", "index.js">>),
   Append(TypesDir, <<"node">>) \o Words(<<"index.d.ts">>),
   Words(<<"node_modules", "top", "index.js">>),
   Words(<<"other", "b.js">>)}

\* The trees: their directories, their files, the package folders whose
\* package.json has a types property and those whose package.json does not
\* load.
Trees ==
  {[dirs |-> BaseDirs \cup optional, files |-> TreeFiles, types |-> types,
    broken |-> broken] :
     optional \in SUBSET OptionalDirs,
     types \in {{ProjModules \o Words(<<"typed">>)},
                {ProjModules \o Words(<<"typed">>), ProjModules \o Words(<<"dep">>),
                 ScopedPkg}},
     broken \in {{}, {Words(<<"proj", "src", "node_modules", "dep">>)}}}

PackageNames ==
  {<<"dep">>, <<"typed">>, <<"inner">>, <<"top">>, <<"missing">>,
   <<"@", "scope", "/", "pkg">>, <<"@", "types", "/", "node">>,
   <<"@", "types", "/", "dep">>}

Referrers ==
  {Words(<<"proj", "src", "a.js">>), ProjModules \o Words(<<"dep", "index.js">>),
   ProjModules \o Words(<<"loose.js">>), ScopedPkg \o Words(<<"index.js">>),
   ScopedPkg \o Words(<<"lib", "file.js">>),
   ScopedPkg \o Words(<<"node_modules", "inner", "index.js">>),
   Words(<<"node_modules", "top", "index.js">>), Words(<<"other", "b.js">>)}

ByonmInputs ==
  [op : {"resolve_package_folder_from_package"}, fs : Trees, name : PackageNames,
   referrer : Referrers, mode : {"execution", "types"}]
    \cup [op : {"resolve_package_folder_from_path"}, fs : Trees,
          name : {<<>>}, referrer : Referrers, mode : {"execution"}]

InitByonm == InitProgram /\ input \in ByonmInputs /\ output = NoOutput

\* One call resolve_package_folder_from_package(name, referrer, mode).
CallResolvePackageFolderFromPackage ==
  /\ input.op = "resolve_package_folder_from_package"
  /\ output = NoOutput
  /\ output' = [kind |-> "returned",
                value |-> ResolvePackageFolderFromPackage(
                            input.fs, input.name, input.referrer, input.mode)]
  /\ UNCHANGED <<input, rvars, cvars, avars, tvars>>

\* One call resolve_package_folder_from_path(specifier).
CallResolvePackageFolderFromPath ==
  /\ input.op = "resolve_package_folder_from_path"
  /\ output = NoOutput
  /\ output' = [kind |-> "returned",
                value |-> ResolvePackageFolderFromPath(input.fs, input.referrer)]
  /\ UNCHANGED <<input, rvars, cvars, avars, tvars>>

NextByonm ==
  \/ CallResolvePackageFolderFromPackage
  \/ CallResolvePackageFolderFromPath

\* The two resolve_package_folder functions applied to referrers and
\* names over node_modules trees.
SpecByonm == InitByonm /\ [][NextByonm]_vars

\* node_modules/<name> of the nearest level, from `level` up to the root,
\* that has this directory.
RECURSIVE NearestLevel(_, _, _)
NearestLevel(fs, name, level) ==
  LET candidate == Append(level, NodeModulesName) \o Split(name, "/")
  IN IF candidate \in fs.dirs THEN SomeFolder(candidate)
     ELSE IF Len(level) = 0 THEN NoFolder
     ELSE NearestLevel(fs, name, ParentOf(level))

\* The call was made in execution mode and returned.
ReturnedInExecutionMode ==
  /\ input.op = "resolve_package_folder_from_package"
  /\ input.mode = "execution"
  /\ output # NoOutput

\* C31: in execution mode resolve_package_folder_from_package returns
\* node_modules/<name> of the nearest level that has it, the levels being
\* the referrer's own directory and then each parent up to the root, and
\* when no level has it the error that names the package and the referrer.
C31_NearestLevelFromReferrer ==
  ReturnedInExecutionMode
  => LET nearest == NearestLevel(input.fs, input.name, ParentOf(input.referrer))
     IN IF nearest.kind = "Some"
        THEN output.value.kind = "Ok" /\ output.value.path = nearest.path
        ELSE /\ output.value.kind = "ErrNotFound"
             /\ output.value.name = input.name
             /\ output.value.referrer = input.referrer

\* The ancestors of a file: its directory and the directories above it.
AncestorsOf(path) == {SubSeq(path, 1, k) : k \in 0..(Len(path) - 1)}

\* The longest of a set of paths that are prefixes of one path.
Nearest(paths) == CHOOSE p \in paths : \A q \in paths : Len(q) <= Len(p)

\* The call returned.
ReturnedFromPath ==
  input.op = "resolve_package_folder_from_path" /\ output # NoOutput

\* C33: for a URL inside a node_modules segment
\* resolve_package_folder_from_path returns the nearest ancestor of the
\* file whose parent is named node_modules, for another URL the nearest
\* ancestor directory with a package.json in it, and None when there is no
\* such ancestor.
C33_NearestAncestor ==
  ReturnedFromPath
  => LET candidates ==
           IF InNpmPackage(input.referrer)
           THEN {a \in AncestorsOf(input.referrer) :
                   FileNameIs(ParentOf(a), NodeModulesName)}
           ELSE {a \in AncestorsOf(input.referrer) :
                   Append(a, PackageJsonName) \in input.fs.files}
     IN IF candidates = {}
        THEN output.value = NoFolder
        ELSE output.value = SomeFolder(Nearest(candidates))

\* The index of the last node_modules component that is followed by the
\* directory of a scope, a package directory and something below it; 0
\* when the path is not in a scoped package.
ScopedPackageAt(path) ==
  LET at == {i \in 1..(Len(path) - 3) :
               /\ path[i] = NodeModulesName
               /\ path[i + 1][1] = "@"
               /\ \A j \in (i + 1)..(Len(path) - 1) : path[j] # NodeModulesName}
  IN IF at = {} THEN 0 ELSE CHOOSE i \in at : TRUE

\* C39: for a file inside a scoped package, node_modules/@scope/pkg/../file,
\* resolve_package_folder_from_path returns the package root
\* node_modules/@scope/pkg, not the directory of the scope.
C39_ScopedPackageRoot ==
  (ReturnedFromPath /\ ScopedPackageAt(input.referrer) # 0)
  => output.value =
       SomeFolder(SubSeq(input.referrer, 1, ScopedPackageAt(input.referrer) + 2))

\* The call returned.
ReturnedFromPackage ==
  input.op = "resolve_package_folder_from_package" /\ output # NoOutput

\* The package.json of the found package is consulted: types mode and a
\* name that does not start with "@types/".
ForTypes == input.mode = "types" /\ ~StartsWith(input.name, TypesPrefix)

\* The path is node_modules/<name> of some level.
IsNameFolder(path) ==
  LET parts == Split(input.name, "/")
  IN /\ Len(path) > Len(parts)
     /\ SubSeq(path, Len(path) - Len(parts) + 1, Len(path)) = parts
     /\ path[Len(path) - Len(parts)] = NodeModulesName

\* The @types folder probed at the level of a node_modules/<name> folder.
TypesFolderBeside(path) ==
  JoinPackageName(SubSeq(path, 1, Len(path) - Len(Split(input.name, "/"))),
                  TypesPackageName(input.name))

\* The parts of the claim about the probes and about execution mode: with
\* the package.json consulted the probes are, level by level,
\* node_modules/<name> and then the @types folder beside it, and the call
\* does not go on to a parent or fail with not-found before that folder was
\* probed; in execution mode no package.json is read, only
\* node_modules/<name> folders are probed and one of them is returned.
ProbesAsClaimed ==
  LET v == output.value
  IN /\ ForTypes
        => /\ \A k \in 1..Len(v.probes) :
                IF k % 2 = 1
                THEN IsNameFolder(v.probes[k])
                ELSE v.probes[k] = TypesFolderBeside(v.probes[k - 1])
           /\ v.kind = "ErrNotFound" => Len(v.probes) % 2 = 0
           /\ (v.kind = "Ok" /\ ~IsNameFolder(v.path))
              => /\ Len(v.probes) % 2 = 0
                 /\ v.path = v.probes[Len(v.probes)]
     /\ input.mode = "execution"
        => /\ v.loads = <<>>
           /\ \A k \in 1..Len(v.probes) : IsNameFolder(v.probes[k])
           /\ v.kind = "Ok"
              => /\ IsNameFolder(v.path)
                 /\ ~StartsWith(input.name, TypesPrefix)
                    => \A i \in 1..Len(v.path) : v.path[i] # <<"@", "types">>

CanonicalErr == [ok |-> FALSE, path |-> <<>>]

\* std::fs::canonicalize on a disk with symbolic links: the components are
\* followed one after the other, ".." leaves the directory reached, a link
\* is replaced by its target, and a component that does not exist is an
\* error.
RECURSIVE CanonicalizeFrom(_, _, _)
CanonicalizeFrom(disk, reached, rest) ==
  IF Len(rest) = 0 THEN [ok |-> TRUE, path |-> reached]
  ELSE IF Head(rest) = <<"..">>
  THEN CanonicalizeFrom(disk,
                        IF Len(reached) > 0 THEN ParentOf(reached) ELSE reached,
                        Tail(rest))
  ELSE LET next == Append(reached, Head(rest))
       IN IF next \in DOMAIN disk.links
          THEN CanonicalizeFrom(disk, disk.links[next], Tail(rest))
          ELSE IF next \in disk.exists
          THEN CanonicalizeFrom(disk, next, Tail(rest))
          ELSE CanonicalErr

Canonicalize(disk, path) == CanonicalizeFrom(disk, <<>>, path)

\* npm_resolver.resolve_package_from_specifier: the folder of the package
\* the specifier is in, an error for a specifier outside the cache, or the
\* panic of get_package_from_referrer.
ResolvePackageFromSpecifier(root_dir, specifier) ==
  LET found == GetPackageFromReferrer(root_dir, specifier)
  IN IF found.kind = "Some"
     THEN [kind |-> "Ok", folder_path |-> PackageFolder(root_dir, found.id)]
     ELSE IF found.kind = "None"
     THEN [kind |-> "Err", folder_path |-> <<>>]
     ELSE [kind |-> "panic", folder_path |-> <<>>]

\* What ensure_require_read_permission returns, and whether it consulted
\* the read permission.
Ensured(kind, checked) == [kind |-> kind, checked |-> checked]

\* permissions.read.check(file_path)
ReadCheck(granted) ==
  IF granted THEN Ensured("Ok", TRUE) ELSE Ensured("ErrPermissionDenied", TRUE)

\* The function as it would be with the paths compared as given.
EnsureWithoutCanonicalize(disk, root_dir, file_path, granted) ==
  IF ~file_path.absolute THEN Ensured("ErrInvalidPath", FALSE)
  ELSE LET pkg == ResolvePackageFromSpecifier(root_dir, Url("file", file_path.path))
       IN IF pkg.kind = "panic" THEN Ensured("panic", FALSE)
          ELSE IF pkg.kind = "Ok" /\ StartsWith(file_path.path, pkg.folder_path)
          THEN Ensured("Ok", FALSE)
          ELSE ReadCheck(granted)

\* ensure_require_read_permission
EnsureRequireReadPermission(disk, root_dir, file_path, granted) ==
  IF ~file_path.absolute THEN Ensured("ErrInvalidPath", FALSE)
  ELSE LET pkg == ResolvePackageFromSpecifier(root_dir, Url("file", file_path.path))
           canonicalized_root_folder == Canonicalize(disk, pkg.folder_path)
           canonicalized_file_path == Canonicalize(disk, file_path.path)
       IN IF pkg.kind = "panic" THEN Ensured("panic", FALSE)
          ELSE IF pkg.kind = "Ok" /\ ~canonicalized_root_folder.ok
          THEN Ensured("ErrCanonicalize", FALSE)
          ELSE IF pkg.kind = "Ok" /\ ~canonicalized_file_path.ok
          THEN Ensured("ErrCanonicalize", FALSE)
          ELSE IF /\ pkg.kind = "Ok"
                  /\ StartsWith(canonicalized_file_path.path,
                                canonicalized_root_folder.path)
          THEN Ensured("Ok", FALSE)
          ELSE ReadCheck(granted)

\* op_require_read_file up to the read: ensure_require_read_permission(..)?
OpRequireReadFile ==
  /\ input.op = "op_require_read_file"
  /\ output = NoOutput
  /\ LET ensured == EnsureRequireReadPermission(input.disk, input.root_dir,
                                                input.file_path, input.granted)
     IN output' = [kind |-> IF ensured.kind = "Ok" THEN "reading" ELSE "returned",
                   result |-> ensured.kind, checked |-> ensured.checked,
                   read |-> FALSE]
  /\ UNCHANGED <<input, rvars, cvars, avars, tvars>>

\* std::fs::read_to_string(file_path)?: the content is read when the path
\* leads to a file.
ReadToString ==
  /\ input.op = "op_require_read_file"
  /\ output # NoOutput
  /\ output.kind = "reading"
  /\ LET target == Canonicalize(input.disk, input.file_path.path)
     IN output' = [output EXCEPT
                     !.kind = "returned",
                     !.result = IF target.ok THEN "Ok" ELSE "ErrRead",
                     !.read = target.ok]
  /\ UNCHANGED <<input, rvars, cvars, avars, tvars>>

\* The cache root, the packages in it and the disks: without links, with a
\* link from inside a package to /etc, and with the package folder itself
\* a link into /store.
ReadRoot == Words(<<"cache">>)

ReadIds == {PackageId(<<"chalk">>, Ver(5, 0, 1)), PackageId(<<"@a", "/", "package">>, Ver(1, 0, 0))}

Prefixes(path) == {SubSeq(path, 1, k) : k \in 0..Len(path)}

DiskFiles(id) ==
  {PackageFolder(ReadRoot, id) \o Words(<<"index.js">>),
   PackageFolder(ReadRoot, id) \o Words(<<"lib", "x.js">>),
   Words(<<"etc", "passwd">>), Words(<<"proj", "main.js">>),
   Words(<<"cache", "x.js">>), Words(<<"store", "pkg", "index.js">>)}

NoLinks == [p \in {} |-> <<>>]

Disks(id) ==
  {[exists |-> UNION {Prefixes(f) : f \in DiskFiles(id)}, links |-> links] :
     links \in {NoLinks,
                (PackageFolder(ReadRoot, id) \o Words(<<"link">>)) :> Words(<<"etc">>),
                PackageFolder(ReadRoot, id) :> Words(<<"store", "pkg">>)}}

FilePaths(id) ==
  [absolute : {TRUE},
   path : {PackageFolder(ReadRoot, id) \o Words(<<"index.js">>),
           PackageFolder(ReadRoot, id) \o Words(<<"lib", "x.js">>),
           PackageFolder(ReadRoot, id) \o Words(<<"lib", "..", "index.js">>),
           PackageFolder(ReadRoot, id) \o Words(<<"missing.js">>),
           PackageFolder(ReadRoot, id) \o Words(<<"link", "passwd">>),
           PackageFolder(ReadRoot, id)
             \o [i \in 1..Len(PackageFolder(ReadRoot, id)) |-> <<"..">>]
             \o Words(<<"etc", "passwd">>),
           Words(<<"etc", "passwd">>), Words(<<"proj", "main.js">>),
           Words(<<"cache", "x.js">>)}]
    \cup [absolute : {FALSE}, path : {Words(<<"index.js">>)}]

ReadInputs ==
  UNION {[op : {"op_require_read_file"}, root_dir : {ReadRoot}, disk : Disks(id),
          file_path : FilePaths(id), granted : BOOLEAN] : id \in ReadIds}

InitRead == InitProgram /\ input \in ReadInputs /\ output = NoOutput

NextRead ==
  \/ OpRequireReadFile
  \/ ReadToString

\* op_require_read_file applied to paths in and outside the packages of
\* the cache, with and without the read permission.
SpecRead == InitRead /\ [][NextRead]_vars

\* The canonicalized file path lies in the canonicalized root folder of the
\* package the path resolves to.
InsideItsPackage ==
  LET pkg == ResolvePackageFromSpecifier(input.root_dir,
                                         Url("file", input.file_path.path))
      root == Canonicalize(input.disk, pkg.folder_path)
      file == Canonicalize(input.disk, input.file_path.path)
  IN /\ input.file_path.absolute
     /\ pkg.kind = "Ok"
     /\ root.ok /\ file.ok
     /\ Len(file.path) >= Len(root.path)
     /\ \A i \in 1..Len(root.path) : file.path[i] = root.path[i]

\* C40: op_require_read_file reads, or is about to read, without having
\* consulted the read permission only when the canonicalized file path lies
\* in the canonicalized root folder of its package; for every other path
\* the read permission was consulted and granted before the read, and a
\* denied check returns the error with nothing read.
C40_ReadNeedsPermission ==
  (input.op = "op_require_read_file" /\ output # NoOutput)
  => /\ ((output.kind = "reading" \/ output.read) /\ ~output.checked)
        => InsideItsPackage
     /\ (~InsideItsPackage /\ (output.kind = "reading" \/ output.read))
        => output.checked /\ input.granted
     /\ (output.checked /\ ~input.granted)
        => /\ output.kind = "returned"
           /\ output.result = "ErrPermissionDenied"
           /\ ~output.read

\* A path under a package folder that leads through a link out of the
\* package was read after the permission check, and only after it.
C40_Witness ==
  /\ input.op = "op_require_read_file"
  /\ output # NoOutput
  /\ \E id \in ReadIds :
       /\ StartsWith(input.file_path.path, PackageFolder(ReadRoot, id))
       /\ input.file_path.path[Len(input.file_path.path) - 1] = <<"link">>
  /\ ~InsideItsPackage
  /\ output.kind = "returned"
  /\ output.read
  /\ output.checked

====
